---- MODULE Spec2Model ----
(***************************************************************************)
(* A model of the stateful transformers of fuel (fuel/transformers/        *)
(* simple.py): Batch, Unpack, Cache and the MultiProcessing prefetcher.    *)
(* Each pipeline has its own specification (SpecBatch, SpecCache, SpecMP); *)
(* the variables of the other pipelines stay at their initial values.      *)
(* The HDF5 datasets (fuel/datasets/hdf5.py) are modelled the same way.    *)
(***************************************************************************)
EXTENDS Integers, Sequences, FiniteSets, TLC

VARIABLES
    \* ---- Unpack(Batch(example stream)) ----
    top,            \* the stream the consumer iterates: "Batch" or "Unpack"
    strictness,     \* Batch.strictness
    num_examples,   \* length of one epoch of the wrapped example stream
    epoch,          \* number of the current epoch of the wrapped stream
    child_pos,      \* Batch.child_epoch_iterator: examples already pulled
    unpack_data,    \* Unpack.data: None, or the izip over the pulled batch
    b_last,         \* the last Batch.get_data call: request, start, outcome, data
    delivered,      \* examples Unpack handed to the consumer in this epoch
    signal,         \* how the consumer's last call ended
    \* ---- Cache(batch stream) ----
    cache,          \* Cache.cache: per source, the buffered items
    up_sizes,       \* sizes of the batches of one epoch of the wrapped stream
    c_epoch,        \* number of the current epoch of the wrapped stream
    c_child,        \* Cache.child_epoch_iterator: batches already pulled
    c_last,         \* the last Cache.get_data call
    c_served,       \* per source, the items served in the current epoch
    c_dropped,      \* items buffered when the current epoch was begun
    c_signal,       \* how the consumer's last call ended
    \* ---- MultiProcessing(batch stream) ----
    max_store,      \* capacity of BackgroundProcess.batches
    queue,          \* BackgroundProcess.batches (FIFO)
    p_pc,           \* position of BackgroundProcess.main
    p_epoch,        \* epoch the worker is draining
    p_count,        \* batches the worker pulled in that epoch
    p_lens,         \* lengths of the epochs the worker has finished
    m_pc,           \* consumer: "idle", or "in_get" inside get_data
    m_epoch,        \* number of the consumer's current epoch
    m_got,          \* batches delivered to the consumer in that epoch
    m_signal,       \* how the consumer's last call ended
    \* ---- H5PYDataset: shared file handles ----
    ref_counts,     \* H5PYDataset._ref_counts: per path, the count
    file_handles,   \* H5PYDataset._file_handles: per path, is there an entry
    open_files,     \* per path, the h5py.File objects opened and not closed
    inst_path,      \* per instance, self.path
    inst_external,  \* per instance, was a file handle passed as path
    inst_in_memory, \* per instance, self.load_in_memory
    inst_opens,     \* per instance, open() calls not yet matched by close()
    \* ---- H5PYDataset / PytablesDataset: get_data ----
    dataset,        \* the class: "H5PYDataset" or "PytablesDataset"
    load_in_memory, \* H5PYDataset.load_in_memory
    sort_indices,   \* H5PYDataset.sort_indices
    sub_start,      \* per source, subsets[i].start (PytablesDataset: start)
    sub_len,        \* num_examples
    g_last,         \* the last get_data call: request, outcome, data
    \* ---- H5PYDataset: construction and subsets ----
    split_rows,     \* per source, the row of the file's split array for "train"
    which_set,      \* the which_set argument
    subset,         \* the subset argument: None or a slice
    construct,      \* "new", "constructed", or the error __init__ raised
    subsets,        \* the first evaluation of the subsets property
    \* ---- H5PYDataset: get_data on the shared handle ----
    h_get,          \* the last get_data call: instance, outcome
    inst_closed,    \* per instance, has it called close()
    \* ---- Padding(batch stream) ----
    mask_sources,   \* Padding.mask_sources
    pad_batch,      \* the batch of the wrapped stream: per source, its samples
    pad_out,        \* the last transform_batch call: outcome, sources, data
    \* ---- Merge(data_streams, sources) ----
    data_streams,   \* the merged streams: mode, number of sources, epoch length
    merge_sources,  \* the names given to Merge
    merge_state,    \* "new", "constructed" or the error of __init__
    merge_produces_examples,\* Merge.produces_examples
    child_epoch_iterators,\* per merged stream, the items its iterator gave
    merge_epochs,   \* the epoch iterators asked of the Merge stream
    merge_epoch,    \* the items the current epoch iterator returned
    merge_last,     \* outcome of the last get_data
    \* ---- Rename(data_stream, names, on_non_existent) ----
    rename_sources, \* data_stream.sources of the wrapped stream
    names,          \* the names argument: None, or old name -> new name
    on_non_existent,\* the on_non_existent argument
    rename_out,     \* the result of Rename.__init__: outcome, sources
    \* ---- FilterSources(data_stream, sources) ----
    filter_stream_sources,\* data_stream.sources of the wrapped stream
    filter_sources, \* the sources argument: None, or the names asked for
    filter_out,     \* the result of FilterSources.__init__: outcome, sources
    filter_data,    \* the last transform_any: the item number, the data returned
    \* ---- SourcewiseTransformer(data_stream, which_sources) ----
    sw_stream_sources,\* data_stream.sources of the wrapped stream
    sw_which_arg,   \* the which_sources argument: None, or names
    which_sources,  \* SourcewiseTransformer.which_sources, once built
    sw_data,        \* the last transform_example or transform_batch
    \* ---- Batch, Unpack, Padding and Cache built one upon another ----
    pipeline,       \* the stages built so far, the root stream first
    construction,   \* the last __init__: class, scheme, wrapped mode, outcome
    \* ---- Filter(data_stream, predicate) ----
    pred_upstream,  \* the items of one epoch of the wrapped stream
    predicate,      \* the predicate: the items it is true of
    pred_child,     \* child_epoch_iterator: the items taken from it
    pred_epochs,    \* the epoch iterators asked of the Filter stream
    pred_out,       \* the items the current epoch iterator returned
    pred_done,      \* the current epoch iterator raised StopIteration
    \* ---- LocalDatasetCache.cache_file(filename) ----
    cf_config,      \* dataset_local_dir and dataset_remote_dir: set or ""
    cf_files,       \* what the file system answers about the remote and local file
    cf_call,        \* the call: where it is, what it returned or raised
    lock_calls,     \* the calls made of fuel.utils.lock, in order
    \* ---- Unpack(batch stream) ----
    unp_batches,    \* the sizes of the batches of one epoch of the wrapped stream
    unp_child,      \* child_epoch_iterator: the batches taken from it
    unp_epochs,     \* the epoch iterators asked of the Unpack stream
    unp_data,       \* Unpack.data: None, or the examples izip has left
    unp_pulled,     \* the batches pulled so far, as (epoch, number)
    unp_out,        \* the examples returned so far
    unp_last,       \* the last get_data: outcome, batches pulled, queue at the pulls
    \* ---- create_split_array and parse_split_array ----
    split_dict,     \* the dictionary given: split name -> source name -> (start, stop)
    split_array,    \* the result of create_split_array: outcome, rows
    parsed,         \* the result of parse_split_array: outcome, dictionary
    \* ---- DataIterator ----
    data_stream,    \* the stream iterated over: batch, sources, the items it has left
    request_iterator,\* the request iterator: None, or its requests and its position
    as_dict,        \* whether the iterator returns dictionaries
    di_calls,       \* the data calls made on the stream, in order
    di_returned     \* what each step of the iterator ended with, in order

batchVars == <<top, strictness, num_examples, epoch, child_pos, unpack_data,
               b_last, delivered, signal>>
cacheVars == <<cache, up_sizes, c_epoch, c_child, c_last, c_served, c_dropped,
               c_signal>>
mpVars == <<max_store, queue, p_pc, p_epoch, p_count, p_lens, m_pc, m_epoch,
            m_got, m_signal>>
handleVars == <<ref_counts, file_handles, open_files, inst_path,
                inst_external, inst_in_memory, inst_opens>>
readVars == <<dataset, load_in_memory, sort_indices, sub_start, sub_len,
              g_last>>
subsetVars == <<split_rows, which_set, subset, construct, subsets>>
accessVars == <<h_get, inst_closed>>
padVars == <<mask_sources, pad_batch, pad_out>>
mergeVars == <<data_streams, merge_sources, merge_state,
               merge_produces_examples, child_epoch_iterators, merge_epochs,
               merge_epoch, merge_last>>
renameVars == <<rename_sources, names, on_non_existent, rename_out>>
filterVars == <<filter_stream_sources, filter_sources, filter_out, filter_data>>
sourcewiseVars == <<sw_stream_sources, sw_which_arg, which_sources, sw_data>>
modeVars == <<pipeline, construction>>
predVars == <<pred_upstream, predicate, pred_child, pred_epochs, pred_out, pred_done>>
cacheFileVars == <<cf_config, cf_files, cf_call, lock_calls>>
unpackVars == <<unp_batches, unp_child, unp_epochs, unp_data, unp_pulled, unp_out, unp_last>>
splitVars == <<split_dict, split_array, parsed>>
iteratorVars ==
    <<data_stream, request_iterator, as_dict, di_calls, di_returned>>
moreVars == <<handleVars, readVars, subsetVars, accessVars, padVars,
              mergeVars, renameVars, filterVars, sourcewiseVars, modeVars,
              predVars, cacheFileVars, unpackVars, splitVars, iteratorVars>>
transformerVars == <<batchVars, cacheVars, mpVars>>
vars == <<batchVars, cacheVars, mpVars, moreVars>>

\* ---------------------------------------------------------------- bounds
NumSources == 2
MaxExamples == 4
MaxRequest == 3
MaxEpochs == 2
MaxUpBatches == 3
MaxUpSize == 3
MaxStore == 2
MaxBatches == 2
NumInstances == 2
MaxOpens == 2
MaxSubStart == 1
MaxSubLen == 2
MaxPadBatch == 2
MaxPadLen == 2
NumMergeStreams == 2
MaxMergeSources == 2
MaxMergeLen == 2
MaxRenameSources == 2
MaxRenames == 2
MaxFilterSources == 2
MaxFilterRequest == 3
MaxFilterItems == 2
MaxSourcewiseSources == 2
MaxSourcewiseItems == 2
MaxStages == 3
MaxPredLen == 3
NumPredValues == 2
MaxUnpackBatches == 2
MaxUnpackSize == 2
MaxNameLen == 2
MaxSplits == 2
MaxRequests == 2

Sources == 1..NumSources
Instances == 1..NumInstances
Paths == {"a.hdf5", "b.hdf5"}

\* No dataset instance has opened anything.
HandleIdle ==
    /\ ref_counts = [p \in Paths |-> 0]
    /\ file_handles = [p \in Paths |-> FALSE]
    /\ open_files = [p \in Paths |-> 0]
    /\ inst_path = [i \in Instances |-> "a.hdf5"]
    /\ inst_external = [i \in Instances |-> FALSE]
    /\ inst_in_memory = [i \in Instances |-> FALSE]
    /\ inst_opens = [i \in Instances |-> 0]

FileSources == {"features", "targets"}

NoGetData ==
    [called |-> FALSE, request |-> [kind |-> "None", start |-> 0, stop |-> 0,
                                    items |-> <<>>],
     outcome |-> "none", data |-> [s \in FileSources |-> <<>>]]

\* A dataset on which get_data has not been called.
ReadIdle ==
    /\ dataset = "H5PYDataset"
    /\ load_in_memory = FALSE
    /\ sort_indices = TRUE
    /\ sub_start = [s \in FileSources |-> 0]
    /\ sub_len = 0
    /\ g_last = NoGetData

\* None is <<>>, a value v is <<v>>.
None == <<>>
Some(v) == <<v>>

NoSubsets ==
    [accessed |-> FALSE, outcome |-> "none",
     ranges |-> [s \in FileSources |-> [start |-> 0, stop |-> 0]]]

\* No dataset is being constructed.
SubsetIdle ==
    /\ split_rows =
          [s \in FileSources |-> [available |-> TRUE, start |-> 0, stop |-> 0]]
    /\ which_set = "train"
    /\ subset = None
    /\ construct = "new"
    /\ subsets = NoSubsets

NoHandleGet == [called |-> FALSE, inst |-> 1, outcome |-> "none"]

\* No get_data call was made and nothing was closed.
AccessIdle ==
    /\ h_get = NoHandleGet
    /\ inst_closed = [i \in Instances |-> FALSE]

PadSources == <<"features", "targets">>

NoPadding ==
    [called |-> FALSE, outcome |-> "none", sources |-> <<>>,
     padded |-> [s \in FileSources |-> <<>>],
     mask |-> [s \in FileSources |-> <<>>],
     passed |-> [s \in FileSources |-> <<>>]]

\* No batch was padded.
PadIdle ==
    /\ mask_sources = {}
    /\ pad_batch = [s \in FileSources |-> <<>>]
    /\ pad_out = NoPadding

\* No Merge stream was built.
MergeIdle ==
    /\ data_streams = <<>>
    /\ merge_sources = <<>>
    /\ merge_state = "new"
    /\ merge_produces_examples = FALSE
    /\ child_epoch_iterators = <<>>
    /\ merge_epochs = 0
    /\ merge_epoch = <<>>
    /\ merge_last = "none"

NoRename == [called |-> FALSE, outcome |-> "none", sources |-> <<>>]

\* No Rename stream was built.
RenameIdle ==
    /\ rename_sources = <<>>
    /\ names = [is_none |-> TRUE, dict |-> <<>>]
    /\ on_non_existent = "raise"
    /\ rename_out = NoRename

NoFilter == [called |-> FALSE, outcome |-> "none", sources |-> <<>>]

NoFilterData == [called |-> FALSE, item |-> 0, data |-> <<>>]

\* No FilterSources stream was built.
FilterIdle ==
    /\ filter_stream_sources = <<>>
    /\ filter_sources = [is_none |-> TRUE, names |-> <<>>]
    /\ filter_out = NoFilter
    /\ filter_data = NoFilterData

NotBuilt == [built |-> FALSE, names |-> {}]

NoSourcewiseData == [called |-> FALSE, method |-> "none", item |-> 0, data |-> <<>>]

\* No sourcewise transformer was built.
SourcewiseIdle ==
    /\ sw_stream_sources = <<>>
    /\ sw_which_arg = [is_none |-> TRUE, names |-> {}]
    /\ which_sources = NotBuilt
    /\ sw_data = NoSourcewiseData

NoConstruction ==
    [class |-> "none", scheme |-> "None", wrapped |-> FALSE,
     outcome |-> "none", produces_examples |-> FALSE]

\* No pipeline was put together.
ModeIdle ==
    /\ pipeline = <<>>
    /\ construction = NoConstruction

\* No Filter stream was built.
PredIdle ==
    /\ pred_upstream = <<>>
    /\ predicate = {}
    /\ pred_child = 0
    /\ pred_epochs = 0
    /\ pred_out = <<>>
    /\ pred_done = FALSE

NoCacheFileCall ==
    [pc |-> "none", result |-> "none", copied |-> FALSE, handed |-> 0]

\* cache_file is not in use.
CacheFileIdle ==
    /\ cf_config = [local_dir_set |-> FALSE, remote_dir_set |-> FALSE]
    /\ cf_files = <<>>
    /\ cf_call = NoCacheFileCall
    /\ lock_calls = <<>>

NoUnpackCall == [outcome |-> "none", pulls |-> 0, left |-> 0]

\* No Unpack stream over a batch stream was built.
UnpackIdle ==
    /\ unp_batches = <<>>
    /\ unp_child = 0
    /\ unp_epochs = 0
    /\ unp_data = [is_none |-> TRUE, items |-> <<>>]
    /\ unp_pulled = <<>>
    /\ unp_out = <<>>
    /\ unp_last = NoUnpackCall

NoSplitArray == [made |-> FALSE, outcome |-> "none", rows |-> <<>>]

NotParsed == [done |-> FALSE, outcome |-> "none", dict |-> <<>>]

\* No split array is being made.
SplitIdle ==
    /\ split_dict = <<>>
    /\ split_array = NoSplitArray
    /\ parsed = NotParsed

\* No DataIterator has been made.
IteratorIdle ==
    /\ data_stream = <<>>
    /\ request_iterator = <<>>
    /\ as_dict = FALSE
    /\ di_calls = <<>>
    /\ di_returned = <<>>

MoreIdle ==
    /\ HandleIdle
    /\ ReadIdle
    /\ SubsetIdle
    /\ AccessIdle
    /\ PadIdle
    /\ MergeIdle
    /\ RenameIdle
    /\ FilterIdle
    /\ SourcewiseIdle
    /\ ModeIdle
    /\ PredIdle
    /\ CacheFileIdle
    /\ UnpackIdle
    /\ SplitIdle
    /\ IteratorIdle

Requests == 1..MaxRequest

\* ------------------------------------------------- the wrapped example stream
\* The i-th example of epoch e: one value per source.
Example(e, i) == [s \in Sources |-> <<e, i, s>>]

\* The examples of epoch e, in order.
Upstream(e) == [i \in 1..num_examples |-> Example(e, i)]

\* next(self.child_epoch_iterator) on the example stream.
ChildNext(pos) ==
    IF pos < num_examples
    THEN [stop |-> FALSE, value |-> Example(epoch, pos + 1), pos |-> pos + 1]
    ELSE [stop |-> TRUE, value |-> Example(epoch, 0), pos |-> pos]

\* ---------------------------------------------------------------- Batch
EmptyData == [s \in Sources |-> <<>>]

KeepPartialAlways(data) == data[1] # <<>>

KeepPartialNever(data) == FALSE

\* `if not self.strictness and data[0]: break`
KeepPartial(data) == strictness = 0 /\ data[1] # <<>>

RaisesNever(data) == FALSE

\* `elif self.strictness > 1 and data[0]: raise ValueError`
RaisesError(data) == strictness > 1 /\ data[1] # <<>>

\* The `for i in range(request)` loop of Batch.get_data.
RECURSIVE BatchLoop(_, _, _, _)
BatchLoop(i, request, data, pos) ==
    IF i >= request
    THEN [outcome |-> "data", data |-> data, pos |-> pos]
    ELSE LET nx == ChildNext(pos) IN
         IF ~nx.stop
         THEN BatchLoop(i + 1, request,
                        [s \in Sources |-> Append(data[s], nx.value[s])],
                        nx.pos)
         ELSE IF KeepPartial(data)
         THEN [outcome |-> "data", data |-> data, pos |-> nx.pos]
         ELSE IF RaisesError(data)
         THEN [outcome |-> "ValueError", data |-> EmptyData, pos |-> nx.pos]
         ELSE [outcome |-> "StopIteration", data |-> EmptyData, pos |-> nx.pos]

Batch_get_data(request, pos) == BatchLoop(0, request, EmptyData, pos)

\* The record kept of a Batch.get_data call.
BatchCall(request, pos, r) ==
    [called |-> TRUE, request |-> request, start |-> pos,
     outcome |-> r.outcome, data |-> r.data]

NoBatchCall ==
    [called |-> FALSE, request |-> 0, start |-> 0,
     outcome |-> "none", data |-> EmptyData]

\* ---------------------------------------------------------------- Unpack
Min(a, b) == IF a < b THEN a ELSE b

RECURSIVE MinLen(_, _)
MinLen(data, s) ==
    IF s = NumSources THEN Len(data[s])
    ELSE Min(Len(data[s]), MinLen(data, s + 1))

IzipDropLast(data) ==
    [k \in 1..(MinLen(data, 1) - 1) |-> [s \in Sources |-> data[s][k]]]

\* izip(*data): the rows of a batch, one tuple over the sources per example.
Izip(data) ==
    [k \in 1..MinLen(data, 1) |-> [s \in Sources |-> data[s][k]]]

NoneData == [is_none |-> TRUE, items |-> <<>>]
SomeData(items) == [is_none |-> FALSE, items |-> items]

\* Unpack.get_data, with the Batch.get_data call that next(child) makes.
RECURSIVE Unpack_get_data(_, _, _, _)
Unpack_get_data(n, udata, pos, last) ==
    LET pulled == udata.is_none
        b == Batch_get_data(n, pos)
        p == IF pulled THEN b.pos ELSE pos
        l == IF pulled THEN BatchCall(n, pos, b) ELSE last
        d == IF pulled THEN Izip(b.data) ELSE udata.items
    IN  IF pulled /\ b.outcome # "data"
        THEN [outcome |-> b.outcome, value |-> <<>>, udata |-> udata,
              pos |-> p, last |-> l]
        ELSE IF d # <<>>
        THEN [outcome |-> "data", value |-> <<Head(d)>>,
              udata |-> SomeData(Tail(d)), pos |-> p, last |-> l]
        ELSE Unpack_get_data(n, NoneData, p, l)

\* ------------------------------------------------------ Batch pipeline actions
EpochOver == signal \in {"no_epoch", "StopIteration", "ValueError"}

\* get_epoch_iterator of the consumer's stream: every stage binds a fresh
\* child iterator; neither Batch nor Unpack resets anything else.
BatchGetEpochIterator ==
    /\ EpochOver
    /\ epoch < MaxEpochs
    /\ epoch' = epoch + 1
    /\ child_pos' = 0
    /\ delivered' = <<>>
    /\ signal' = "none"
    /\ b_last' = NoBatchCall
    /\ UNCHANGED <<top, strictness, num_examples, unpack_data>>
    /\ UNCHANGED <<cacheVars, mpVars, moreVars>>

\* One step of the epoch iterator of a Batch stream.
BatchNext ==
    /\ top = "Batch"
    /\ ~EpochOver
    /\ \E n \in Requests :
         LET r == Batch_get_data(n, child_pos) IN
         /\ child_pos' = r.pos
         /\ b_last' = BatchCall(n, child_pos, r)
         /\ signal' = r.outcome
    /\ UNCHANGED <<top, strictness, num_examples, epoch, unpack_data,
                   delivered>>
    /\ UNCHANGED <<cacheVars, mpVars, moreVars>>

\* One step of the epoch iterator of an Unpack(Batch) stream.
UnpackNext ==
    /\ top = "Unpack"
    /\ ~EpochOver
    /\ \E n \in Requests :
         LET r == Unpack_get_data(n, unpack_data, child_pos, b_last) IN
         /\ child_pos' = r.pos
         /\ b_last' = r.last
         /\ unpack_data' = r.udata
         /\ signal' = r.outcome
         /\ delivered' = delivered \o r.value
    /\ UNCHANGED <<top, strictness, num_examples, epoch>>
    /\ UNCHANGED <<cacheVars, mpVars, moreVars>>

BatchIdle ==
    /\ top = "Batch"
    /\ strictness = 0
    /\ num_examples = 0
    /\ epoch = 0
    /\ child_pos = 0
    /\ unpack_data = NoneData
    /\ b_last = NoBatchCall
    /\ delivered = <<>>
    /\ signal = "no_epoch"

\* ---------------------------------------------------------------- Cache
\* Batch sizes of one epoch of the wrapped batch stream: every sequence within
\* the bounds, and a batch of 5 followed by a batch of 1.
UpSizeChoices ==
    UNION {[1..n -> 1..MaxUpSize] : n \in 0..MaxUpBatches} \cup {<<5, 1>>}

\* Items in the first j batches of an epoch.
RECURSIVE Offset(_)
Offset(j) == IF j = 0 THEN 0 ELSE Offset(j - 1) + up_sizes[j]

\* The j-th batch of epoch e: per source, its items, numbered through the epoch.
UpBatch(e, j) ==
    [s \in Sources |-> [k \in 1..up_sizes[j] |-> <<e, Offset(j - 1) + k, s>>]]

\* All items of source s in epoch e, in order.
UpConcat(e, s) == [g \in 1..Offset(Len(up_sizes)) |-> <<e, g, s>>]

\* next(self.child_epoch_iterator) on the batch stream.
CacheChildNext(child) ==
    IF child < Len(up_sizes)
    THEN [stop |-> FALSE, batch |-> UpBatch(c_epoch, child + 1),
          child |-> child + 1]
    ELSE [stop |-> TRUE, batch |-> EmptyData, child |-> child]

RaiseAlways(c) == TRUE

\* `if not self.cache[0]: raise`
RaiseOnEmpty(c) == c[1] = <<>>

\* Cache._cache: one batch of the wrapped stream appended to the buffer.
Cache_cache(c, child) ==
    LET nx == CacheChildNext(child) IN
    IF ~nx.stop
    THEN [raised |-> FALSE, cache |-> [s \in Sources |-> c[s] \o nx.batch[s]],
          child |-> nx.child]
    ELSE [raised |-> RaiseOnEmpty(c), cache |-> c, child |-> nx.child]

TakeAll(c, request) == c

\* `cache[:request]`
Take(c, request) == SubSeq(c, 1, Min(request, Len(c)))

TrimOneMore(c, request) == SubSeq(c, request + 2, Len(c))

\* `cache[request:]`
Trim(c, request) == SubSeq(c, request + 1, Len(c))

\* Cache.get_data for an integer request.
Cache_get_data(request, c, child) ==
    LET r == IF request > Len(c[1])
             THEN Cache_cache(c, child)
             ELSE [raised |-> FALSE, cache |-> c, child |-> child]
    IN  IF r.raised
        THEN [outcome |-> "StopIteration", data |-> EmptyData,
              cache |-> r.cache, child |-> r.child]
        ELSE [outcome |-> "data",
              data |-> [s \in Sources |-> Take(r.cache[s], request)],
              cache |-> [s \in Sources |-> Trim(r.cache[s], request)],
              child |-> r.child]

\* The record kept of a Cache.get_data call.
CacheCall(request, c, child, r) ==
    [called |-> TRUE, request |-> request, buffered |-> Len(c[1]),
     child |-> child, outcome |-> r.outcome, data |-> r.data]

NoCacheCall ==
    [called |-> FALSE, request |-> 0, buffered |-> 0, child |-> 0,
     outcome |-> "none", data |-> EmptyData]

CacheKept == cache

\* `self.cache = [[] for _ in self.sources]`
CacheReset == [s \in Sources |-> <<>>]

\* ------------------------------------------------------ Cache pipeline actions
\* Cache.get_epoch_iterator, at any moment of an epoch: the buffer is reset
\* and a fresh child iterator is bound.
CacheGetEpochIterator ==
    /\ c_epoch < MaxEpochs
    /\ cache' = CacheReset
    /\ c_epoch' = c_epoch + 1
    /\ c_child' = 0
    /\ c_last' = NoCacheCall
    /\ c_served' = [s \in Sources |-> <<>>]
    /\ c_dropped' = Len(cache[1])
    /\ c_signal' = "fresh"
    /\ UNCHANGED up_sizes
    /\ UNCHANGED <<batchVars, mpVars, moreVars>>

\* One step of the epoch iterator of a Cache stream.
CacheNext ==
    /\ c_signal \in {"fresh", "data"}
    /\ \E n \in Requests :
         LET r == Cache_get_data(n, cache, c_child) IN
         /\ cache' = r.cache
         /\ c_child' = r.child
         /\ c_last' = CacheCall(n, cache, c_child, r)
         /\ c_served' = [s \in Sources |-> c_served[s] \o r.data[s]]
         /\ c_signal' = r.outcome
    /\ UNCHANGED <<up_sizes, c_epoch, c_dropped>>
    /\ UNCHANGED <<batchVars, mpVars, moreVars>>

CacheIdle ==
    /\ cache = [s \in Sources |-> <<>>]
    /\ up_sizes = <<>>
    /\ c_epoch = 0
    /\ c_child = 0
    /\ c_last = NoCacheCall
    /\ c_served = [s \in Sources |-> <<>>]
    /\ c_dropped = 0
    /\ c_signal = "no_epoch"

\* ------------------------------------------ BackgroundProcess, MultiProcessing
\* The i-th batch of epoch e of the wrapped stream, and the end-of-epoch
\* sentinel (the StopIteration class) the worker puts after each epoch.
QueuedBatch(e, i) == [stop |-> FALSE, e |-> e, i |-> i]
Sentinel == [stop |-> TRUE, e |-> 0, i |-> 0]

FullOffByOne(q) == Len(q) >= max_store + 1

FullOneEarly(q) == Len(q) >= max_store - 1

\* Queue(max_batches): put blocks while max_batches items are queued.
Full(q) == Len(q) >= max_store

NeverSentinel(item) == FALSE

\* `if data == StopIteration`
IsSentinel(item) == item.stop

\* `iterator = self.data_stream.get_epoch_iterator()`
WorkerGetEpochIterator ==
    /\ p_pc = "start"
    /\ p_epoch < MaxEpochs
    /\ p_epoch' = p_epoch + 1
    /\ p_count' = 0
    /\ p_pc' = "next"
    /\ UNCHANGED <<max_store, queue, p_lens, m_pc, m_epoch, m_got, m_signal>>
    /\ UNCHANGED <<batchVars, cacheVars, moreVars>>

\* `for batch in iterator`: the wrapped stream hands over one more batch.
WorkerNextBatch ==
    /\ p_pc = "next"
    /\ p_count < MaxBatches
    /\ p_count' = p_count + 1
    /\ p_pc' = "put"
    /\ UNCHANGED <<max_store, queue, p_epoch, p_lens, m_pc, m_epoch, m_got,
                   m_signal>>
    /\ UNCHANGED <<batchVars, cacheVars, moreVars>>

\* `for batch in iterator`: the wrapped stream's epoch is over.
WorkerEpochEnd ==
    /\ p_pc = "next"
    /\ p_lens' = Append(p_lens, p_count)
    /\ p_pc' = "put_stop"
    /\ UNCHANGED <<max_store, queue, p_epoch, p_count, m_pc, m_epoch, m_got,
                   m_signal>>
    /\ UNCHANGED <<batchVars, cacheVars, moreVars>>

\* `self.batches.put(batch)`
WorkerPut ==
    /\ p_pc = "put"
    /\ ~Full(queue)
    /\ queue' = Append(queue, QueuedBatch(p_epoch, p_count))
    /\ p_pc' = "next"
    /\ UNCHANGED <<max_store, p_epoch, p_count, p_lens, m_pc, m_epoch, m_got,
                   m_signal>>
    /\ UNCHANGED <<batchVars, cacheVars, moreVars>>

\* `self.batches.put(StopIteration)`
WorkerPutSentinel ==
    /\ p_pc = "put_stop"
    /\ ~Full(queue)
    /\ queue' = Append(queue, Sentinel)
    /\ p_pc' = "start"
    /\ UNCHANGED <<max_store, p_epoch, p_count, p_lens, m_pc, m_epoch, m_got,
                   m_signal>>
    /\ UNCHANGED <<batchVars, cacheVars, moreVars>>

\* get_epoch_iterator of the MultiProcessing stream, by a consumer that reads
\* every epoch to its end; the worker and the queue are not touched.
MPGetEpochIterator ==
    /\ m_pc = "idle"
    /\ m_signal \in {"no_epoch", "StopIteration"}
    /\ m_epoch < MaxEpochs
    /\ m_epoch' = m_epoch + 1
    /\ m_got' = <<>>
    /\ m_signal' = "fresh"
    /\ UNCHANGED <<max_store, queue, p_pc, p_epoch, p_count, p_lens, m_pc>>
    /\ UNCHANGED <<batchVars, cacheVars, moreVars>>

\* The consumer's epoch iterator calls MultiProcessing.get_data.
MPCallGetData ==
    /\ m_pc = "idle"
    /\ m_signal \in {"fresh", "data"}
    /\ m_pc' = "in_get"
    /\ UNCHANGED <<max_store, queue, p_pc, p_epoch, p_count, p_lens, m_epoch,
                   m_got, m_signal>>
    /\ UNCHANGED <<batchVars, cacheVars, moreVars>>

\* `data = self.background.get_next_data()` returns the head of the queue;
\* the sentinel becomes StopIteration, anything else is returned.
MPGetDataReturn ==
    /\ m_pc = "in_get"
    /\ queue # <<>>
    /\ queue' = Tail(queue)
    /\ m_pc' = "idle"
    /\ IF IsSentinel(Head(queue))
       THEN /\ m_signal' = "StopIteration"
            /\ m_got' = m_got
       ELSE /\ m_signal' = "data"
            /\ m_got' = Append(m_got, Head(queue))
    /\ UNCHANGED <<max_store, p_pc, p_epoch, p_count, p_lens, m_epoch>>
    /\ UNCHANGED <<batchVars, cacheVars, moreVars>>

MPIdle ==
    /\ max_store = 1
    /\ queue = <<>>
    /\ p_pc = "start"
    /\ p_epoch = 0
    /\ p_count = 0
    /\ p_lens = <<>>
    /\ m_pc = "idle"
    /\ m_epoch = 0
    /\ m_got = <<>>
    /\ m_signal = "no_epoch"

BatchInit ==
    /\ top \in {"Batch", "Unpack"}
    /\ strictness \in 0..2
    /\ num_examples \in 0..MaxExamples
    /\ epoch = 0
    /\ child_pos = 0
    /\ unpack_data = NoneData
    /\ b_last = NoBatchCall
    /\ delivered = <<>>
    /\ signal = "no_epoch"
    /\ CacheIdle
    /\ MPIdle
    /\ MoreIdle

BatchPipelineNext ==
    \/ BatchGetEpochIterator
    \/ BatchNext
    \/ UnpackNext

SpecBatch == BatchInit /\ [][BatchPipelineNext]_vars

\* ------------------------------------------------- Batch pipeline properties
\* The examples from..from+n-1 (counted from 0) of epoch e, stacked per source.
Stacked(e, from, n) ==
    [s \in Sources |-> [k \in 1..n |-> Example(e, from + k)[s]]]

\* Examples the wrapped stream still had when the last Batch.get_data began.
Remaining == num_examples - b_last.start

\* C1: one epoch of Unpack(Batch(stream, strictness 0)) delivers the examples
\* of the wrapped stream in order, none lost or duplicated, never fails, and
\* signals exhaustion only once all of them were delivered.
RoundTrip ==
    (top = "Unpack" /\ strictness = 0) =>
        /\ Len(delivered) <= num_examples
        /\ delivered = SubSeq(Upstream(epoch), 1, Len(delivered))
        /\ signal # "ValueError"
        /\ signal = "StopIteration" => delivered = Upstream(epoch)

\* An epoch whose last batch was short has been delivered completely.
RoundTripWitness ==
    /\ top = "Unpack"
    /\ strictness = 0
    /\ b_last.called
    /\ b_last.outcome = "data"
    /\ Len(b_last.data[1]) < b_last.request
    /\ Len(delivered) = num_examples
    /\ num_examples >= 3

\* C2: with strictness 0, get_data(N) returns the next N examples stacked
\* while at least N remain, the non-empty rest when 1..N-1 remain, and signals
\* exhaustion when none remain; it never returns an empty batch.
BatchLenient ==
    (strictness = 0 /\ b_last.called) =>
        /\ Remaining >= b_last.request =>
              /\ b_last.outcome = "data"
              /\ b_last.data = Stacked(epoch, b_last.start, b_last.request)
        /\ (1 <= Remaining /\ Remaining < b_last.request) =>
              /\ b_last.outcome = "data"
              /\ b_last.data = Stacked(epoch, b_last.start, Remaining)
        /\ Remaining = 0 => b_last.outcome = "StopIteration"
        /\ b_last.outcome = "data" => \A s \in Sources : b_last.data[s] # <<>>

\* A short, non-empty final batch was returned.
BatchLenientWitness ==
    /\ strictness = 0
    /\ b_last.called
    /\ b_last.outcome = "data"
    /\ Len(b_last.data[1]) >= 1
    /\ Len(b_last.data[1]) < b_last.request

\* C3: with strictness 1 every batch returned has exactly the requested size;
\* exhaustion in the middle of a batch ends in StopIteration, never an error
\* or a short batch, and the examples pulled for that batch are dropped.
BatchDiscards ==
    (strictness = 1 /\ b_last.called) =>
        /\ b_last.outcome # "ValueError"
        /\ b_last.outcome = "data" =>
              /\ \A s \in Sources : Len(b_last.data[s]) = b_last.request
              /\ b_last.data = Stacked(epoch, b_last.start, b_last.request)
        /\ Remaining < b_last.request =>
              /\ b_last.outcome = "StopIteration"
              /\ child_pos = num_examples
              /\ top = "Unpack" =>
                    delivered = SubSeq(Upstream(epoch), 1, b_last.start)

\* Exhaustion hit a batch for which examples had been pulled.
BatchDiscardsWitness ==
    /\ strictness = 1
    /\ b_last.called
    /\ b_last.outcome = "StopIteration"
    /\ Remaining >= 1
    /\ top = "Unpack"

\* C4: with strictness 2 get_data raises ValueError exactly when the wrapped
\* stream is exhausted after at least one example of the batch was pulled;
\* exhaustion with nothing pulled is a plain StopIteration.
BatchStrict ==
    (strictness = 2 /\ b_last.called) =>
        /\ b_last.outcome = "ValueError" <=>
              (1 <= Remaining /\ Remaining < b_last.request)
        /\ Remaining = 0 => b_last.outcome = "StopIteration"
        /\ Remaining >= b_last.request =>
              /\ b_last.outcome = "data"
              /\ b_last.data = Stacked(epoch, b_last.start, b_last.request)

\* The error was raised on a partly filled batch.
BatchStrictWitness ==
    /\ strictness = 2
    /\ b_last.called
    /\ b_last.outcome = "ValueError"
    /\ Remaining >= 1

CacheInit ==
    /\ cache = [s \in Sources |-> <<>>]
    /\ up_sizes \in UpSizeChoices
    /\ c_epoch = 0
    /\ c_child = 0
    /\ c_last = NoCacheCall
    /\ c_served = [s \in Sources |-> <<>>]
    /\ c_dropped = 0
    /\ c_signal = "no_epoch"
    /\ BatchIdle
    /\ MPIdle
    /\ MoreIdle

CachePipelineNext ==
    \/ CacheGetEpochIterator
    \/ CacheNext

SpecCache == CacheInit /\ [][CachePipelineNext]_vars

\* ------------------------------------------------- Cache pipeline properties
\* Items the wrapped stream has handed over in the current epoch.
Consumed == Offset(c_child)

\* Buffer length after the refill, if any, of the last Cache.get_data call.
AfterRefill ==
    IF c_last.request > c_last.buffered /\ c_last.child < Len(up_sizes)
    THEN c_last.buffered + up_sizes[c_last.child + 1]
    ELSE c_last.buffered

\* C5: per source, what was served in the epoch followed by what is buffered
\* is what the wrapped stream handed over, in order; at the exhaustion signal
\* the served items are all the items of the epoch.
CacheConservation ==
    \A s \in Sources :
        /\ c_served[s] \o cache[s] = SubSeq(UpConcat(c_epoch, s), 1, Consumed)
        /\ c_signal = "StopIteration" => c_served[s] = UpConcat(c_epoch, s)

\* Requests of 2 over batches of 5 and 1 served all 6 items, then exhaustion.
CacheConservationWitness ==
    /\ up_sizes = <<5, 1>>
    /\ c_signal = "StopIteration"
    /\ c_last.request = 2
    /\ Len(c_served[1]) = 6

\* C6, as claimed: every call that returns data returns exactly `request`
\* items for every source.
CacheServesExactly ==
    (c_last.called /\ c_last.outcome = "data") =>
        \A s \in Sources : Len(c_last.data[s]) = c_last.request

\* C6, amended: a call that returns data returns the first min(request, L)
\* buffered items of every source, L being the buffer length after the at
\* most one refill of the call, and leaves the rest buffered.
CacheServesFront ==
    (c_last.called /\ c_last.outcome = "data") =>
        LET k == Min(c_last.request, AfterRefill)
            v == Len(c_served[1])
        IN  \A s \in Sources :
              /\ Len(c_last.data[s]) = k
              /\ c_last.data[s] = SubSeq(UpConcat(c_epoch, s), v - k + 1, v)
              /\ cache[s] = SubSeq(UpConcat(c_epoch, s), v + 1, Consumed)
              /\ Len(cache[s]) = AfterRefill - k

\* A call served its request and left items buffered.
CacheServesFrontWitness ==
    /\ c_last.called
    /\ c_last.outcome = "data"
    /\ Len(c_last.data[1]) = c_last.request
    /\ c_last.request >= 2
    /\ Len(cache[1]) >= 1

\* C7: right after get_epoch_iterator the buffer of every source is empty,
\* and every item buffered or served belongs to the current epoch.
CacheResetEachEpoch ==
    \A s \in Sources :
        /\ c_signal = "fresh" => cache[s] = <<>>
        /\ \A k \in 1..Len(cache[s]) : cache[s][k][1] = c_epoch
        /\ \A k \in 1..Len(c_served[s]) : c_served[s][k][1] = c_epoch

\* An epoch begun while items were buffered is being served.
CacheResetWitness ==
    /\ c_epoch >= 2
    /\ c_dropped >= 1
    /\ c_signal = "data"
    /\ Len(c_served[1]) >= 1

\* C8: exhaustion is signalled only with an empty buffer and an exhausted
\* wrapped stream, after everything was served; a refill that finds the
\* wrapped stream exhausted while items are buffered serves those items.
CacheFlushes ==
    /\ c_signal = "StopIteration" =>
          /\ \A s \in Sources : cache[s] = <<>>
          /\ c_child = Len(up_sizes)
          /\ \A s \in Sources : c_served[s] = UpConcat(c_epoch, s)
    /\ (/\ c_last.called
        /\ c_last.request > c_last.buffered
        /\ c_last.buffered >= 1
        /\ c_last.child = Len(up_sizes)) =>
          /\ c_last.outcome = "data"
          /\ \A s \in Sources : Len(c_last.data[s]) = c_last.buffered

\* The last call flushed a buffer shorter than its request.
CacheFlushesWitness ==
    /\ c_last.called
    /\ c_last.outcome = "data"
    /\ c_last.request > c_last.buffered
    /\ c_last.buffered >= 1
    /\ c_last.child = Len(up_sizes)

MPInit ==
    /\ max_store \in 1..MaxStore
    /\ queue = <<>>
    /\ p_pc = "start"
    /\ p_epoch = 0
    /\ p_count = 0
    /\ p_lens = <<>>
    /\ m_pc = "idle"
    /\ m_epoch = 0
    /\ m_got = <<>>
    /\ m_signal = "no_epoch"
    /\ BatchIdle
    /\ CacheIdle
    /\ MoreIdle

MPNext ==
    \/ WorkerGetEpochIterator
    \/ WorkerNextBatch
    \/ WorkerEpochEnd
    \/ WorkerPut
    \/ WorkerPutSentinel
    \/ MPGetEpochIterator
    \/ MPCallGetData
    \/ MPGetDataReturn

SpecMP == MPInit /\ [][MPNext]_vars

\* ------------------------------------------------- Prefetcher properties
\* C9: in its k-th epoch a consumer that reads every epoch to its end receives
\* the batches of the k-th epoch the worker drained, in production order, and
\* its exhaustion signal only after all of them: one sentinel per epoch.
PrefetchOrder ==
    /\ \A j \in 1..Len(m_got) : m_got[j] = QueuedBatch(m_epoch, j)
    /\ m_signal = "StopIteration" =>
          /\ m_epoch <= Len(p_lens)
          /\ Len(m_got) = p_lens[m_epoch]

\* The consumer's second epoch ended after an empty first epoch.
PrefetchOrderWitness ==
    /\ m_epoch = 2
    /\ m_signal = "StopIteration"
    /\ p_lens[1] = 0
    /\ Len(m_got) = 2

WorkerStep ==
    \/ WorkerGetEpochIterator
    \/ WorkerNextBatch
    \/ WorkerEpochEnd
    \/ WorkerPut
    \/ WorkerPutSentinel

\* The worker process is scheduled whenever it can run, and a blocked
\* Queue.get returns once an item is queued.
FairSpecMP == SpecMP /\ WF_vars(WorkerStep) /\ WF_vars(MPGetDataReturn)

\* C11: the worker can always take a step unless it waits at a put on a full
\* queue (it never ends on its own); it never waits on a full queue while the
\* consumer waits on an empty one; and every get_data call returns.
PrefetchLive ==
    /\ [](p_epoch < MaxEpochs =>
             \/ ENABLED WorkerStep
             \/ p_pc \in {"put", "put_stop"} /\ Len(queue) >= max_store)
    /\ [](~(/\ p_pc \in {"put", "put_stop"}
            /\ Full(queue)
            /\ m_pc = "in_get"
            /\ queue = <<>>))
    /\ (m_pc = "in_get") ~> (m_pc = "idle")

\* A get_data call waits on an empty queue in the consumer's second epoch.
PrefetchLiveWitness ==
    /\ m_pc = "in_get"
    /\ queue = <<>>
    /\ m_epoch = 2
    /\ p_pc = "put"

\* ------------------------------------------------- Re-entry and worker failure
\* get_epoch_iterator called again while the current epoch is still being
\* read: the child iterator is replaced; Unpack defines no override, so
\* self.data keeps the rows of the batch that was being unpacked.
BatchReenterEpoch ==
    /\ ~EpochOver
    /\ epoch < MaxEpochs
    /\ epoch' = epoch + 1
    /\ child_pos' = 0
    /\ delivered' = <<>>
    /\ signal' = "none"
    /\ b_last' = NoBatchCall
    /\ UNCHANGED <<top, strictness, num_examples, unpack_data>>
    /\ UNCHANGED <<cacheVars, mpVars, moreVars>>

BatchReenterNext ==
    \/ BatchGetEpochIterator
    \/ BatchNext
    \/ UnpackNext
    \/ BatchReenterEpoch

SpecBatchReenter == BatchInit /\ [][BatchReenterNext]_vars

\* C12: the first example an Unpack stream delivers in an epoch is the first
\* example of the fresh upstream epoch, also when the epoch before it was
\* abandoned while a batch was partly delivered.
UnpackReenterFresh ==
    (top = "Unpack" /\ delivered # <<>>) => delivered[1] = Example(epoch, 1)

\* get_epoch_iterator called again on a MultiProcessing stream before the
\* sentinel was read: MultiProcessing defines no override, so neither the
\* worker nor the queue is touched.
MPReenterEpoch ==
    /\ m_pc = "idle"
    /\ m_signal \in {"fresh", "data"}
    /\ m_epoch < MaxEpochs
    /\ m_epoch' = m_epoch + 1
    /\ m_got' = <<>>
    /\ m_signal' = "fresh"
    /\ UNCHANGED <<max_store, queue, p_pc, p_epoch, p_count, p_lens, m_pc>>
    /\ UNCHANGED <<batchVars, cacheVars, moreVars>>

MPReenterNext ==
    \/ WorkerGetEpochIterator
    \/ WorkerNextBatch
    \/ WorkerEpochEnd
    \/ WorkerPut
    \/ WorkerPutSentinel
    \/ MPGetEpochIterator
    \/ MPCallGetData
    \/ MPGetDataReturn
    \/ MPReenterEpoch

SpecMPReenter == MPInit /\ [][MPReenterNext]_vars

\* C13: what a MultiProcessing stream delivers in an epoch starts with the
\* first batch of an upstream epoch and, when the epoch ends, is the whole of
\* that upstream epoch: nothing of an abandoned epoch is delivered.
MPReenterFresh ==
    /\ m_got # <<>> => m_got[1].i = 1
    /\ \A j \in 1..Len(m_got) : m_got[j] = QueuedBatch(m_got[1].e, j)
    /\ (m_signal = "StopIteration" /\ m_got # <<>>) =>
          Len(m_got) = p_lens[m_got[1].e]

\* The wrapped stream raises inside the worker, at get_epoch_iterator or at
\* next(iterator): main has no handler, the worker process ends and puts
\* nothing on the queue.
WorkerError ==
    /\ p_pc \in {"start", "next"}
    /\ p_pc' = "dead"
    /\ UNCHANGED <<max_store, queue, p_epoch, p_count, p_lens, m_pc, m_epoch,
                   m_got, m_signal>>
    /\ UNCHANGED <<batchVars, cacheVars, moreVars>>

MPErrorNext ==
    \/ WorkerGetEpochIterator
    \/ WorkerNextBatch
    \/ WorkerEpochEnd
    \/ WorkerPut
    \/ WorkerPutSentinel
    \/ MPGetEpochIterator
    \/ MPCallGetData
    \/ MPGetDataReturn
    \/ WorkerError

SpecMPError == MPInit /\ [][MPErrorNext]_vars

\* C14: after the wrapped stream raised in the worker, a get_data call of the
\* consumer ends: it is never left waiting on a queue nothing will fill, and
\* the epoch is not reported as ended normally.
ErrorsCross ==
    p_pc = "dead" =>
        /\ m_pc = "in_get" => ENABLED MPGetDataReturn
        /\ m_signal = "StopIteration" => m_epoch <= Len(p_lens)

\* ------------------------------------------------- H5PYDataset file handles
OpensNewFileAlways(handles, p) == TRUE

\* `if self.path not in self._file_handles`
OpensNewFile(handles, p) == ~handles[p]

\* `if not self._ref_counts[self.path]`
LastClose(count) == count = 0

\* Does instance i go through the shared table of handles.
UsesSharedHandle(i) == ~inst_in_memory[i] /\ ~inst_external[i]

\* H5PYDataset.open of instance i (_out_of_memory_open unless in memory).
H5Open(i) ==
    /\ inst_opens[i] < MaxOpens
    /\ inst_opens' = [inst_opens EXCEPT ![i] = @ + 1]
    /\ IF UsesSharedHandle(i)
       THEN LET p == inst_path[i]
                new == OpensNewFile(file_handles, p) IN
            /\ file_handles' = [file_handles EXCEPT ![p] = TRUE]
            /\ open_files' =
                  [open_files EXCEPT ![p] = IF new THEN @ + 1 ELSE @]
            /\ ref_counts' = [ref_counts EXCEPT ![p] = @ + 1]
       ELSE UNCHANGED <<file_handles, open_files, ref_counts>>
    /\ UNCHANGED <<inst_path, inst_external, inst_in_memory>>

\* H5PYDataset.close of instance i, for an open() it made before
\* (_out_of_memory_close unless in memory).
H5Close(i) ==
    /\ inst_opens[i] > 0
    /\ inst_opens' = [inst_opens EXCEPT ![i] = @ - 1]
    /\ IF UsesSharedHandle(i)
       THEN LET p == inst_path[i]
                count == ref_counts[p] - 1 IN
            /\ ref_counts' = [ref_counts EXCEPT ![p] = count]
            /\ IF LastClose(count)
               THEN /\ open_files' = [open_files EXCEPT ![p] = @ - 1]
                    /\ file_handles' = [file_handles EXCEPT ![p] = FALSE]
               ELSE UNCHANGED <<open_files, file_handles>>
       ELSE UNCHANGED <<file_handles, open_files, ref_counts>>
    /\ UNCHANGED <<inst_path, inst_external, inst_in_memory>>

HandleOpen ==
    /\ \E i \in Instances : H5Open(i)
    /\ UNCHANGED <<transformerVars, readVars, subsetVars, accessVars,
                 padVars, mergeVars, renameVars, filterVars, sourcewiseVars,
                 modeVars, predVars, cacheFileVars, unpackVars, splitVars,
                 iteratorVars>>

HandleClose ==
    /\ \E i \in Instances : H5Close(i)
    /\ UNCHANGED <<transformerVars, readVars, subsetVars, accessVars,
                 padVars, mergeVars, renameVars, filterVars, sourcewiseVars,
                 modeVars, predVars, cacheFileVars, unpackVars, splitVars,
                 iteratorVars>>

HandleInit ==
    /\ ref_counts = [p \in Paths |-> 0]
    /\ file_handles = [p \in Paths |-> FALSE]
    /\ open_files = [p \in Paths |-> 0]
    /\ inst_path \in [Instances -> Paths]
    /\ inst_external \in [Instances -> BOOLEAN]
    /\ inst_in_memory \in [Instances -> BOOLEAN]
    /\ inst_opens = [i \in Instances |-> 0]
    /\ BatchIdle
    /\ CacheIdle
    /\ MPIdle
    /\ ReadIdle
    /\ SubsetIdle
    /\ AccessIdle
    /\ PadIdle
    /\ MergeIdle
    /\ RenameIdle
    /\ FilterIdle
    /\ SourcewiseIdle
    /\ ModeIdle
    /\ PredIdle
    /\ CacheFileIdle
    /\ UnpackIdle
    /\ SplitIdle
    /\ IteratorIdle

HandleNext ==
    \/ HandleOpen
    \/ HandleClose

SpecHandles == HandleInit /\ [][HandleNext]_vars

\* The open() calls not yet closed of the instances 1..n that share the
\* table entry of path p.
RECURSIVE OpensOn(_, _)
OpensOn(p, n) ==
    IF n = 0 THEN 0
    ELSE OpensOn(p, n - 1) +
         (IF inst_path[n] = p /\ UsesSharedHandle(n) THEN inst_opens[n] ELSE 0)

\* C15: for every path, the count is the number of opens not yet closed of
\* the instances sharing it, a handle is in the table exactly while the count
\* is positive, and exactly one file is open while it is and none otherwise.
RefCounting ==
    \A p \in Paths :
        /\ ref_counts[p] = OpensOn(p, NumInstances)
        /\ file_handles[p] <=> ref_counts[p] > 0
        /\ open_files[p] = IF ref_counts[p] > 0 THEN 1 ELSE 0

\* Two instances share one path and hold three opens of it between them.
RefCountingWitness ==
    /\ inst_path[1] = inst_path[2]
    /\ UsesSharedHandle(1)
    /\ UsesSharedHandle(2)
    /\ inst_opens[1] = 1
    /\ inst_opens[2] = 2
    /\ ref_counts[inst_path[1]] = 3

\* ------------------------------------------------- get_data of the HDF5 datasets
\* The value stored in row g (counted from 0) of source s of the file.
Row(s, g) == (IF s = "features" THEN 0 ELSE 100) + 10 * (g + 1)

\* Rows in every source of the file.
FileLen == MaxSubStart + MaxSubLen + 3

\* array[a:b]: Python slicing of n rows clips the stop to n.
SliceLen(a, b, n) == IF Min(b, n) > a THEN Min(b, n) - a ELSE 0

\* handle[source][a:b]
FileSlice(s, a, b) ==
    [k \in 1..SliceLen(a, b, FileLen) |-> Row(s, a + k - 1)]

\* indexable[list]: the rows at the listed positions, in the listed order.
FancyRead(s, req) == [k \in 1..Len(req) |-> Row(s, req[k])]

\* numpy.argsort(request): any permutation that puts the request in
\* nondecreasing order (the order among equal indices is unspecified).
ArgsortChoices(req) ==
    {p \in [1..Len(req) -> 1..Len(req)] :
        /\ \A j, k \in 1..Len(req) : p[j] = p[k] => j = k
        /\ \A k \in 1..(Len(req) - 1) : req[p[k]] <= req[p[k + 1]]}

NoScatter(p, read) == read

\* data[indices] = read
Scatter(p, read) ==
    [j \in 1..Len(read) |-> read[CHOOSE k \in 1..Len(read) : p[k] = j]]

\* H5PYDataset.unsorted_fancy_index(request, indexable), indices == p
unsorted_fancy_index(req, s, p) ==
    IF Len(req) > 1
    THEN Scatter(p, FancyRead(s, [k \in 1..Len(req) |-> req[p[k]]]))
    ELSE FancyRead(s, req)

SliceRequest(a, b) ==
    [kind |-> "slice", start |-> a, stop |-> b, items |-> <<>>]
ListRequest(l) == [kind |-> "list", start |-> 0, stop |-> 0, items |-> l]
IntRequest(k) == [kind |-> "int", start |-> k, stop |-> 0, items |-> <<>>]
NoneRequest == [kind |-> "None", start |-> 0, stop |-> 0, items |-> <<>>]

Batch_of(data) == [outcome |-> "batch", data |-> data]
Row_of(data) == [outcome |-> "row", data |-> data]
RaiseValueError ==
    [outcome |-> "ValueError", data |-> [s \in FileSources |-> <<>>]]

\* self.data_sources[i]: handle[source][subset], read by load()
DataSource(s) == FileSlice(s, sub_start[s], sub_start[s] + sub_len)

\* H5PYDataset._in_memory_get_data: data_source[request]
InMemoryGetData(rq) ==
    IF rq.kind = "None" THEN RaiseValueError
    ELSE IF rq.kind = "slice"
    THEN Batch_of([s \in FileSources |->
            [k \in 1..SliceLen(rq.start, rq.stop, Len(DataSource(s))) |->
                DataSource(s)[rq.start + k]]])
    ELSE IF rq.kind = "list"
    THEN Batch_of([s \in FileSources |->
            [k \in 1..Len(rq.items) |-> DataSource(s)[rq.items[k] + 1]]])
    ELSE Row_of([s \in FileSources |-> <<DataSource(s)[rq.start + 1]>>])

\* request shifted by the start of the subset
OffsetList(items, start) == [k \in 1..Len(items) |-> items[k] + start]

\* H5PYDataset._out_of_memory_get_data
OutOfMemoryGetData(rq, p) ==
    IF rq.kind = "slice"
    THEN Batch_of([s \in FileSources |->
            FileSlice(s, rq.start + sub_start[s], rq.stop + sub_start[s])])
    ELSE IF rq.kind = "list"
    THEN Batch_of([s \in FileSources |->
            IF sort_indices
            THEN unsorted_fancy_index(OffsetList(rq.items, sub_start[s]), s, p)
            ELSE FancyRead(s, OffsetList(rq.items, sub_start[s]))])
    ELSE RaiseValueError

\* PytablesDataset.get_data
PytablesGetData(rq) ==
    IF rq.kind = "slice"
    THEN Batch_of([s \in FileSources |->
            FileSlice(s, rq.start + sub_start[s], rq.stop + sub_start[s])])
    ELSE IF rq.kind = "list"
    THEN Batch_of([s \in FileSources |->
            FancyRead(s, OffsetList(rq.items, sub_start[s]))])
    ELSE RaiseValueError

GetData(rq, p) ==
    IF dataset = "PytablesDataset" THEN PytablesGetData(rq)
    ELSE IF load_in_memory THEN InMemoryGetData(rq)
    ELSE OutOfMemoryGetData(rq, p)

Increasing(l) == \A k \in 1..(Len(l) - 1) : l[k] < l[k + 1]

\* Index lists over the rows of the subset; <<4, 1, 3>> over five rows too.
ListChoices ==
    LET upto == Min(sub_len, MaxSubLen) IN
    UNION {[1..n -> 0..(upto - 1)] : n \in 0..MaxSubLen}
      \cup (IF sub_len >= 5 THEN {<<4, 1, 3>>} ELSE {})

\* The requests a caller makes: slices with 0 <= start <= stop, lists of
\* indices below num_examples (ordered ones when the dataset was told not to
\* sort), a single index, None.
RequestChoices ==
    {SliceRequest(x[1], x[2]) :
        x \in {y \in (0..Min(sub_len, MaxSubLen))
                        \X (0..(Min(sub_len, MaxSubLen) + 1)) : y[1] <= y[2]}}
    \cup {ListRequest(l) : l \in {m \in ListChoices :
              sort_indices \/ load_in_memory \/ Increasing(m)}}
    \cup {IntRequest(k) : k \in 0..(Min(sub_len, MaxSubLen) - 1)}
    \cup {NoneRequest}

\* get_data(request=rq). get_data assigns nothing on the dataset, so calls
\* do not depend on each other: a behaviour makes one call.
ReadGetData ==
    /\ ~g_last.called
    /\ \E rq \in RequestChoices :
         \E p \in ArgsortChoices(rq.items) :
            LET r == GetData(rq, p) IN
            g_last' = [called |-> TRUE, request |-> rq,
                       outcome |-> r.outcome, data |-> r.data]
    /\ UNCHANGED <<dataset, load_in_memory, sort_indices, sub_start, sub_len>>
    /\ UNCHANGED <<transformerVars, handleVars, subsetVars, accessVars,
                 padVars, mergeVars, renameVars, filterVars, sourcewiseVars,
                 modeVars, predVars, cacheFileVars, unpackVars, splitVars,
                 iteratorVars>>

ReadInit ==
    /\ dataset \in {"H5PYDataset", "PytablesDataset"}
    /\ load_in_memory \in BOOLEAN
    /\ sort_indices \in BOOLEAN
    /\ dataset = "PytablesDataset" => ~load_in_memory /\ sort_indices
    /\ load_in_memory => sort_indices
    /\ sub_start \in [FileSources -> 0..MaxSubStart]
    /\ dataset = "PytablesDataset" =>
          \A s, t \in FileSources : sub_start[s] = sub_start[t]
    /\ sub_len \in 0..MaxSubLen \cup {5}
    /\ g_last = NoGetData
    /\ BatchIdle
    /\ CacheIdle
    /\ MPIdle
    /\ HandleIdle
    /\ SubsetIdle
    /\ AccessIdle
    /\ PadIdle
    /\ MergeIdle
    /\ RenameIdle
    /\ FilterIdle
    /\ SourcewiseIdle
    /\ ModeIdle
    /\ PredIdle
    /\ CacheFileIdle
    /\ UnpackIdle
    /\ SplitIdle
    /\ IteratorIdle

ReadNext ==
    \/ ReadGetData

SpecRead == ReadInit /\ [][ReadNext]_vars

RequestShapes ==
    g_last.called =>
        LET rq == g_last.request IN
        /\ (rq.kind = "slice" /\ rq.stop <= sub_len) =>
              /\ g_last.outcome = "batch"
              /\ \A s \in FileSources :
                    g_last.data[s] =
                        [k \in 1..(rq.stop - rq.start) |->
                            Row(s, rq.start + sub_start[s] + k - 1)]
        /\ rq.kind = "list" =>
              /\ g_last.outcome = "batch"
              /\ \A s \in FileSources :
                    g_last.data[s] =
                        [k \in 1..Len(rq.items) |->
                            Row(s, rq.items[k] + sub_start[s])]
        /\ rq.kind \in {"int", "None"} => g_last.outcome = "ValueError"

\* ------------------------------------------------- H5PYDataset construction
\* parse_split_array keeps the available rows only, and a split only if it
\* has one.
ProvidesSources == {s \in FileSources : split_rows[s].available}
AvailableSplits == IF ProvidesSources # {} THEN {"train"} ELSE {}

StepAllowedAny(step) == TRUE

\* `subset.step not in (1, None)` raises
StepAllowed(step) == step \in {Some(1), None}

\* `subset = subset if subset else slice(None)`
SubsetTemplate(arg) ==
    IF arg = None THEN [start |-> None, stop |-> None, step |-> None]
    ELSE arg[1]

\* H5PYDataset.__init__
H5Construct ==
    /\ construct = "new"
    /\ construct' =
          IF which_set \notin AvailableSplits THEN "ValueError"
          ELSE IF ~StepAllowed(SubsetTemplate(subset).step) THEN "ValueError"
          ELSE "constructed"
    /\ UNCHANGED <<split_rows, which_set, subset, subsets>>
    /\ UNCHANGED <<transformerVars, handleVars, readVars, accessVars,
                 padVars, mergeVars, renameVars, filterVars, sourcewiseVars,
                 modeVars, predVars, cacheFileVars, unpackVars, splitVars,
                 iteratorVars>>

\* The range the subsets property computes for source s.
SubsetOf(s) ==
    LET t == SubsetTemplate(subset) IN
    [start |-> IF t.start = None THEN split_rows[s].start ELSE t.start[1],
     stop |-> IF t.stop = None THEN split_rows[s].stop ELSE t.stop[1]]

RangeLen(r) == r.stop - r.start

\* self.sources[0]: the sources come in the order of the file.
FirstSource == IF "features" \in ProvidesSources THEN "features" ELSE "targets"

\* First evaluation of the subsets property (by num_examples, load or an
\* out-of-memory get_data) on a constructed dataset.
H5Subsets ==
    /\ construct = "constructed"
    /\ ~subsets.accessed
    /\ subsets' =
          IF \E s \in ProvidesSources :
                RangeLen(SubsetOf(s)) # RangeLen(SubsetOf(FirstSource))
          THEN [accessed |-> TRUE, outcome |-> "ValueError",
                ranges |-> NoSubsets.ranges]
          ELSE [accessed |-> TRUE, outcome |-> "ok",
                ranges |-> [s \in FileSources |->
                               IF s \in ProvidesSources THEN SubsetOf(s)
                               ELSE NoSubsets.ranges[s]]]
    /\ UNCHANGED <<split_rows, which_set, subset, construct>>
    /\ UNCHANGED <<transformerVars, handleVars, readVars, accessVars,
                 padVars, mergeVars, renameVars, filterVars, sourcewiseVars,
                 modeVars, predVars, cacheFileVars, unpackVars, splitVars,
                 iteratorVars>>

\* H5PYDataset.num_examples
NumExamples == RangeLen(subsets.ranges[FirstSource])

SplitRowChoices ==
    {[available |-> FALSE, start |-> 0, stop |-> 0]} \cup
    {[available |-> TRUE, start |-> a, stop |-> a + n] :
        a \in 0..MaxSubStart, n \in 0..MaxSubLen}

OptIndex == {None} \cup {Some(v) : v \in 0..(MaxSubStart + MaxSubLen)}

SubsetChoices ==
    {None} \cup
    {Some([start |-> a, stop |-> b, step |-> c]) :
        a \in OptIndex, b \in OptIndex, c \in {None, Some(1), Some(2)}}

SubsetInit ==
    /\ split_rows \in [FileSources -> SplitRowChoices]
    /\ which_set \in {"train", "valid"}
    /\ subset \in SubsetChoices
    /\ construct = "new"
    /\ subsets = NoSubsets
    /\ BatchIdle
    /\ CacheIdle
    /\ MPIdle
    /\ HandleIdle
    /\ ReadIdle
    /\ AccessIdle
    /\ PadIdle
    /\ MergeIdle
    /\ RenameIdle
    /\ FilterIdle
    /\ SourcewiseIdle
    /\ ModeIdle
    /\ PredIdle
    /\ CacheFileIdle
    /\ UnpackIdle
    /\ SplitIdle
    /\ IteratorIdle

SubsetNext ==
    \/ H5Construct
    \/ H5Subsets

SpecSubset == SubsetInit /\ [][SubsetNext]_vars

\* C18: a dataset over a split whose available sources differ in
\* stop - start is never constructed, whatever the subset argument.
UnequalSplitRejected ==
    construct = "constructed" =>
        \A s, t \in ProvidesSources :
            RangeLen(split_rows[s]) = RangeLen(split_rows[t])

\* C19: the range subsets computes for a source lies inside the split's
\* range of that source, and num_examples is at most stop - start.
SubsetInsideSplit ==
    (subsets.accessed /\ subsets.outcome = "ok") =>
        /\ \A s \in ProvidesSources :
              \A g \in subsets.ranges[s].start..(subsets.ranges[s].stop - 1) :
                  split_rows[s].start <= g /\ g < split_rows[s].stop
        /\ NumExamples <= RangeLen(split_rows[FirstSource])

\* C20: construction with a which_set the file does not provide, or with a
\* subset whose step is neither 1 nor None, ends in ValueError; no dataset
\* exists and its subsets are never evaluated.
ConstructionRejects ==
    /\ (/\ construct # "new"
        /\ \/ which_set \notin AvailableSplits
           \/ SubsetTemplate(subset).step \notin {None, Some(1)}) =>
          construct = "ValueError"
    /\ construct = "ValueError" => ~subsets.accessed

\* A subset of step 2 on a provided split was refused.
ConstructionRejectsWitness ==
    /\ construct = "ValueError"
    /\ which_set \in AvailableSplits
    /\ SubsetTemplate(subset).step = Some(2)

\* ------------------------------------------------- get_data and the shared handle
FileHandleAlways(i) == TRUE

\* H5PYDataset._file_handle of instance i: is there a handle to return
\* (the external one, or the table's entry for the path).
FileHandle(i) == inst_external[i] \/ file_handles[inst_path[i]]

\* H5PYDataset.get_data of instance i for a slice or list request.
H5GetData(i) ==
    IF inst_in_memory[i] THEN "data"
    ELSE IF FileHandle(i) THEN "data"
    ELSE "IOError"

AccessOpen ==
    /\ \E i \in Instances : H5Open(i)
    /\ UNCHANGED accessVars
    /\ UNCHANGED <<transformerVars, readVars, subsetVars, padVars,
                 mergeVars, renameVars, filterVars, sourcewiseVars, modeVars,
                 predVars, cacheFileVars, unpackVars, splitVars, iteratorVars>>

AccessClose ==
    /\ \E i \in Instances :
         /\ H5Close(i)
         /\ inst_closed' = [inst_closed EXCEPT ![i] = TRUE]
    /\ UNCHANGED h_get
    /\ UNCHANGED <<transformerVars, readVars, subsetVars, padVars,
                 mergeVars, renameVars, filterVars, sourcewiseVars, modeVars,
                 predVars, cacheFileVars, unpackVars, splitVars, iteratorVars>>

AccessGetData ==
    /\ \E i \in Instances :
         h_get' = [called |-> TRUE, inst |-> i, outcome |-> H5GetData(i)]
    /\ UNCHANGED inst_closed
    /\ UNCHANGED <<transformerVars, handleVars, readVars, subsetVars,
                 padVars, mergeVars, renameVars, filterVars, sourcewiseVars,
                 modeVars, predVars, cacheFileVars, unpackVars, splitVars,
                 iteratorVars>>

\* Out-of-memory instances, with or without an external handle.
AccessInit ==
    /\ ref_counts = [p \in Paths |-> 0]
    /\ file_handles = [p \in Paths |-> FALSE]
    /\ open_files = [p \in Paths |-> 0]
    /\ inst_path \in [Instances -> Paths]
    /\ inst_external \in [Instances -> BOOLEAN]
    /\ inst_in_memory = [i \in Instances |-> FALSE]
    /\ inst_opens = [i \in Instances |-> 0]
    /\ h_get = NoHandleGet
    /\ inst_closed = [i \in Instances |-> FALSE]
    /\ BatchIdle
    /\ CacheIdle
    /\ MPIdle
    /\ ReadIdle
    /\ SubsetIdle
    /\ PadIdle
    /\ MergeIdle
    /\ RenameIdle
    /\ FilterIdle
    /\ SourcewiseIdle
    /\ ModeIdle
    /\ PredIdle
    /\ CacheFileIdle
    /\ UnpackIdle
    /\ SplitIdle
    /\ IteratorIdle

AccessNext ==
    \/ AccessOpen
    \/ AccessClose
    \/ AccessGetData

SpecAccess == AccessInit /\ [][AccessNext]_vars

\* C21: a get_data call on an out-of-memory instance without external handle,
\* made while the table has no handle for its path, ends in IOError.
\* (get_data changes neither table nor counts, so the state after the call
\* shows the table the call saw.)
NoHandleIOError ==
    [][\A i \in Instances :
          (/\ h_get' # h_get
           /\ h_get'.inst = i
           /\ UsesSharedHandle(i)
           /\ ~file_handles[inst_path[i]]) => h_get'.outcome = "IOError"]_vars

\* get_data raised IOError for an instance that had opened and closed its
\* file, the count being back at zero.
NoHandleIOErrorWitness ==
    /\ h_get.called
    /\ h_get.outcome = "IOError"
    /\ inst_closed[h_get.inst]
    /\ inst_opens[h_get.inst] = 0
    /\ ref_counts[inst_path[h_get.inst]] = 0

\* ------------------------------------------------- Padding
\* A sample of a batch is an array: its length (first axis), the rest of its
\* shape and its dtype; position j of sample i of source s holds Elem(s, i, j),
\* a number with a fractional part exactly when the dtype is a float one.
Sample(len, rest, dtype) == [len |-> len, rest |-> rest, dtype |-> dtype]

Elem(batch, s, i, j) ==
    [whole |-> (IF s = "features" THEN 0 ELSE 100) + 10 * i + j,
     half |-> batch[s][i].dtype = "float"]

Zero == [whole |-> 0, half |-> FALSE]

RECURSIVE MaxOf(_)
MaxOf(lengths) ==
    IF Len(lengths) = 1 THEN lengths[1]
    ELSE LET m == MaxOf(Tail(lengths)) IN
         IF lengths[1] >= m THEN lengths[1] ELSE m

RestMatchesAlways(shape_rest, rest_shape) == TRUE

\* `shape[1:] == rest_shape`
RestMatches(shape_rest, rest_shape) == shape_rest = rest_shape

\* Assignment into an array of the given dtype: an integer array drops the
\* fractional part.
Cast(value, dtype) ==
    IF dtype = "int" THEN [whole |-> value.whole, half |-> FALSE] ELSE value

\* Padding.sources
PaddingSources ==
    LET name(k) == PadSources[(k + 1) \div 2]
        all == [k \in 1..(2 * Len(PadSources)) |->
                   IF k % 2 = 1 THEN name(k) ELSE name(k) \o "_mask"]
    IN  SelectSeq(all, LAMBDA n :
            \/ n \in {PadSources[k] : k \in 1..Len(PadSources)}
            \/ \E s \in mask_sources : n = s \o "_mask")

\* The body of the loop of transform_batch for a masked source s.
PadRaises(batch, s) ==
    \/ batch[s] = <<>>
    \/ \E i \in 1..Len(batch[s]) :
          ~RestMatches(batch[s][i].rest, batch[s][1].rest)

MaxSequenceLength(batch, s) ==
    MaxOf([i \in 1..Len(batch[s]) |-> batch[s][i].len])

PaddedBatch(batch, s) ==
    [i \in 1..Len(batch[s]) |->
        [j \in 1..MaxSequenceLength(batch, s) |->
            IF j <= batch[s][i].len
            THEN Cast(Elem(batch, s, i, j), batch[s][1].dtype)
            ELSE Zero]]

Mask(batch, s) ==
    [i \in 1..Len(batch[s]) |->
        [j \in 1..MaxSequenceLength(batch, s) |->
            IF j <= batch[s][i].len THEN 1 ELSE 0]]

Masked(s) == s \in mask_sources

\* Padding.transform_batch
Padding_transform_batch(batch) ==
    IF \E s \in FileSources : Masked(s) /\ PadRaises(batch, s)
    THEN [called |-> TRUE, outcome |-> "ValueError", sources |-> <<>>,
          padded |-> NoPadding.padded, mask |-> NoPadding.mask,
          passed |-> NoPadding.passed]
    ELSE [called |-> TRUE, outcome |-> "batch", sources |-> PaddingSources,
          padded |-> [s \in FileSources |->
                         IF Masked(s) THEN PaddedBatch(batch, s) ELSE <<>>],
          mask |-> [s \in FileSources |->
                       IF Masked(s) THEN Mask(batch, s) ELSE <<>>],
          passed |-> [s \in FileSources |->
                         IF Masked(s) THEN <<>> ELSE batch[s]]]

\* One get_data of the Padding stream: the batch of the wrapped stream is
\* transformed.
PaddingGetData ==
    /\ ~pad_out.called
    /\ pad_out' = Padding_transform_batch(pad_batch)
    /\ UNCHANGED <<mask_sources, pad_batch>>
    /\ UNCHANGED <<transformerVars, handleVars, readVars, subsetVars,
                 accessVars, mergeVars, renameVars, filterVars,
                 sourcewiseVars, modeVars, predVars, cacheFileVars,
                 unpackVars, splitVars, iteratorVars>>

SampleChoices ==
    {Sample(l, r, d) : l \in 0..MaxPadLen, r \in {<<>>, <<2>>},
                       d \in {"int", "float"}}

\* Batches of up to MaxPadBatch samples, and one of lengths 3, 1, 4.
FeatureBatchChoices ==
    UNION {[1..n -> SampleChoices] : n \in 0..MaxPadBatch}
      \cup {<<Sample(3, <<>>, "int"), Sample(1, <<>>, "int"),
              Sample(4, <<>>, "int")>>}

PaddingInit ==
    /\ mask_sources \in SUBSET FileSources
    /\ \E f \in FeatureBatchChoices :
          pad_batch = [s \in FileSources |->
                          IF s = "features" THEN f
                          ELSE [i \in 1..Len(f) |-> Sample(1, <<>>, "int")]]
    /\ pad_out = NoPadding
    /\ BatchIdle
    /\ CacheIdle
    /\ MPIdle
    /\ HandleIdle
    /\ ReadIdle
    /\ SubsetIdle
    /\ AccessIdle
    /\ MergeIdle
    /\ RenameIdle
    /\ FilterIdle
    /\ SourcewiseIdle
    /\ ModeIdle
    /\ PredIdle
    /\ CacheFileIdle
    /\ UnpackIdle
    /\ SplitIdle
    /\ IteratorIdle

PaddingNext ==
    \/ PaddingGetData

SpecPadding == PaddingInit /\ [][PaddingNext]_vars

\* C22: in the padded batch of a non-empty batch every masked source s has
\* rows of length L, the largest length in the batch; row i holds sample i on
\* the positions up to its length and zero after it, the mask holds 1 on
\* exactly those positions, and the sources not masked are handed on as
\* they came.
PaddingPads ==
    (pad_out.called /\ pad_out.outcome = "batch") =>
        \A s \in FileSources :
            IF Masked(s)
            THEN \A i \in 1..Len(pad_batch[s]) :
                    LET L == MaxSequenceLength(pad_batch, s)
                        len == pad_batch[s][i].len IN
                    /\ Len(pad_out.padded[s]) = Len(pad_batch[s])
                    /\ Len(pad_out.padded[s][i]) = L
                    /\ Len(pad_out.mask[s][i]) = L
                    /\ \A j \in 1..L :
                          /\ pad_out.padded[s][i][j] =
                                IF j <= len THEN Elem(pad_batch, s, i, j)
                                ELSE Zero
                          /\ pad_out.mask[s][i][j] = IF j <= len THEN 1 ELSE 0
            ELSE pad_out.passed[s] = pad_batch[s]

\* C23: a batch in which two samples of a masked source differ in the shape
\* after the first axis ends the call in ValueError, without a padded batch.
PaddingRejects ==
    (/\ pad_out.called
     /\ \E s \in mask_sources :
           \E i, k \in 1..Len(pad_batch[s]) :
               pad_batch[s][i].rest # pad_batch[s][k].rest) =>
        /\ pad_out.outcome = "ValueError"
        /\ pad_out.sources = <<>>
        /\ pad_out.padded = NoPadding.padded

\* The second of two samples of a masked source has another rest shape than
\* the first, and the call raised.
PaddingRejectsWitness ==
    /\ pad_out.called
    /\ pad_out.outcome = "ValueError"
    /\ "features" \in mask_sources
    /\ Len(pad_batch["features"]) = 2
    /\ pad_batch["features"][1].rest = <<>>
    /\ pad_batch["features"][2].rest = <<2>>

\* ------------------------------------------------- Merge
MergeStreams == 1..NumMergeStreams

MergeNames == <<"s1", "s2", "s3", "s4", "s5", "s6", "s7", "s8", "s9", "s10",
                "s11", "s12", "s13">>

\* The k-th item of epoch e of merged stream s: one element per source.
ChildItem(s, e, k) ==
    [c \in 1..data_streams[s].sources |-> <<s, e, k, c>>]

RECURSIVE ChainReversed(_)
ChainReversed(seqs) ==
    IF seqs = <<>> THEN <<>> ELSE ChainReversed(Tail(seqs)) \o Head(seqs)

\* `chain(*...)`, and `result.extend` over the children in order.
RECURSIVE Chain(_)
Chain(seqs) ==
    IF seqs = <<>> THEN <<>> ELSE Head(seqs) \o Chain(Tail(seqs))

\* `all(data_stream.produces_examples == data_streams[0].produces_examples ...)`
SameOutputType ==
    \A s \in MergeStreams :
        data_streams[s].produces_examples = data_streams[1].produces_examples

RightNumberOfSourcesAlways == TRUE

\* `len(list(chain(*[data_stream.sources ...]))) == len(sources)`
RightNumberOfSources ==
    Len(Chain([s \in MergeStreams |->
                  [c \in 1..data_streams[s].sources |-> <<s, c>>]]))
        = Len(merge_sources)

\* Merge.__init__
MergeConstruct ==
    /\ merge_state = "new"
    /\ data_streams # <<>>
    /\ IF ~SameOutputType
       THEN /\ merge_state' = "ValueError"
            /\ UNCHANGED merge_produces_examples
       ELSE /\ merge_produces_examples' = data_streams[1].produces_examples
            /\ merge_state' = IF RightNumberOfSources THEN "constructed"
                              ELSE "ValueError"
    /\ UNCHANGED <<data_streams, merge_sources, child_epoch_iterators,
                   merge_epochs, merge_epoch, merge_last>>
    /\ UNCHANGED <<transformerVars, handleVars, readVars, subsetVars,
                 accessVars, padVars, renameVars, filterVars, sourcewiseVars,
                 modeVars, predVars, cacheFileVars, unpackVars, splitVars,
                 iteratorVars>>

\* Merge.get_epoch_iterator: a new epoch iterator of every merged stream.
MergeGetEpochIterator ==
    /\ merge_state = "constructed"
    /\ merge_epochs < MaxEpochs
    /\ child_epoch_iterators' = [s \in MergeStreams |-> 0]
    /\ merge_epochs' = merge_epochs + 1
    /\ merge_epoch' = <<>>
    /\ merge_last' = "none"
    /\ UNCHANGED <<data_streams, merge_sources, merge_state,
                   merge_produces_examples>>
    /\ UNCHANGED <<transformerVars, handleVars, readVars, subsetVars,
                 accessVars, padVars, renameVars, filterVars, sourcewiseVars,
                 modeVars, predVars, cacheFileVars, unpackVars, splitVars,
                 iteratorVars>>

ExhaustedFirstStream ==
    {s \in {1} : child_epoch_iterators[s] >= data_streams[s].length}

\* The merged streams whose epoch iterator has nothing left.
Exhausted ==
    {s \in MergeStreams : child_epoch_iterators[s] >= data_streams[s].length}

\* Merge.get_data, called by the epoch iterator of the Merge stream (request
\* None) or by hand: every child is asked for its next item in turn, and the
\* StopIteration of the first child that has none ends the call.
MergeGetData(request) ==
    /\ merge_state = "constructed"
    /\ child_epoch_iterators # <<>>
    /\ IF request # "None"
       THEN /\ merge_last' = "ValueError"
            /\ UNCHANGED <<child_epoch_iterators, merge_epoch>>
       ELSE IF Exhausted = {}
       THEN /\ child_epoch_iterators' =
                   [s \in MergeStreams |-> child_epoch_iterators[s] + 1]
            /\ merge_epoch' = Append(merge_epoch,
                   Chain([s \in MergeStreams |->
                       ChildItem(s, merge_epochs,
                                 child_epoch_iterators[s] + 1)]))
            /\ merge_last' = "item"
       ELSE LET first == CHOOSE s \in Exhausted :
                             \A t \in Exhausted : s <= t IN
            /\ child_epoch_iterators' =
                   [s \in MergeStreams |->
                       IF s < first THEN child_epoch_iterators[s] + 1
                       ELSE child_epoch_iterators[s]]
            /\ merge_last' = "StopIteration"
            /\ UNCHANGED merge_epoch
    /\ UNCHANGED <<data_streams, merge_sources, merge_state,
                   merge_produces_examples, merge_epochs>>
    /\ UNCHANGED <<transformerVars, handleVars, readVars, subsetVars,
                 accessVars, padVars, renameVars, filterVars, sourcewiseVars,
                 modeVars, predVars, cacheFileVars, unpackVars, splitVars,
                 iteratorVars>>

MergeGet ==
    \E request \in {"None", "request"} : MergeGetData(request)

MergeStreamChoices ==
    [produces_examples : BOOLEAN, sources : 1..MaxMergeSources,
     length : 0..MaxMergeLen]

MergeInit ==
    /\ data_streams \in [MergeStreams -> MergeStreamChoices]
    /\ \E n \in 0..(NumMergeStreams * MaxMergeSources + 1) :
          merge_sources = SubSeq(MergeNames, 1, n)
    /\ merge_state = "new"
    /\ merge_produces_examples = FALSE
    /\ child_epoch_iterators = <<>>
    /\ merge_epochs = 0
    /\ merge_epoch = <<>>
    /\ merge_last = "none"
    /\ BatchIdle
    /\ CacheIdle
    /\ MPIdle
    /\ HandleIdle
    /\ ReadIdle
    /\ SubsetIdle
    /\ AccessIdle
    /\ PadIdle
    /\ RenameIdle
    /\ FilterIdle
    /\ SourcewiseIdle
    /\ ModeIdle
    /\ PredIdle
    /\ CacheFileIdle
    /\ UnpackIdle
    /\ SplitIdle
    /\ IteratorIdle

MergeNext ==
    \/ MergeConstruct
    \/ MergeGetEpochIterator
    \/ MergeGet

SpecMerge == MergeInit /\ [][MergeNext]_vars

\* C24: the k-th item a Merge epoch returned is the k-th items of the merged
\* streams' epochs put one after the other in the order of the streams, and
\* it has as many elements as names were given to Merge.
MergeLockstep ==
    \A k \in 1..Len(merge_epoch) :
        LET before(s) ==
                Cardinality({tc \in MergeStreams \X (1..MaxMergeSources) :
                    tc[1] < s /\ tc[2] <= data_streams[tc[1]].sources})
        IN  /\ \A s \in MergeStreams :
                  \A c \in 1..data_streams[s].sources :
                      merge_epoch[k][before(s) + c] = <<s, merge_epochs, k, c>>
            /\ Len(merge_epoch[k]) = Len(merge_sources)

\* Two items of the second epoch were returned, the merged streams having
\* one and two sources.
MergeLockstepWitness ==
    /\ merge_epochs = 2
    /\ Len(merge_epoch) = 2
    /\ merge_last = "item"
    /\ data_streams[1].sources = 1
    /\ data_streams[2].sources = 2

\* C25: the construction of a Merge fails when the merged streams are not
\* all example streams or all batch streams, and when the number of names
\* given differs from the number of sources of the streams together; in
\* every other case it succeeds and the Merge stream has the mode of the
\* streams.
MergeConstruction ==
    merge_state # "new" =>
        LET modes == {data_streams[s].produces_examples : s \in MergeStreams}
            total == Cardinality({sc \in MergeStreams \X (1..MaxMergeSources) :
                                     sc[2] <= data_streams[sc[1]].sources})
            wrong == Cardinality(modes) > 1 \/ total # Len(merge_sources)
        IN  /\ wrong => merge_state = "ValueError"
            /\ ~wrong => /\ merge_state = "constructed"
                         /\ modes = {merge_produces_examples}

\* Three names for two streams of one source each: the construction failed.
MergeConstructionWitness ==
    /\ merge_state = "ValueError"
    /\ \A s \in MergeStreams : data_streams[s].sources = 1
    /\ \A s \in MergeStreams : data_streams[s].produces_examples
    /\ Len(merge_sources) = NumMergeStreams + 1

\* ------------------------------------------------- Rename
SourceNames == {"a", "b", "c", "d"}

RangeOf(seq) == {seq[i] : i \in 1..Len(seq)}

\* `sources_lookup`
SourcesLookup(name) ==
    CHOOSE i \in 1..Len(rename_sources) : rename_sources[i] = name

\* `usable_names`
UsableNames == {k \in DOMAIN names.dict : k \in RangeOf(rename_sources)}

KnownPolicyAlways(policy) == TRUE

\* `on_non_existent in ('raise', 'ignore', 'warn')`
KnownPolicy(policy) == policy \in {"raise", "ignore", "warn"}

UniqueNewNamesAlways == TRUE

\* `len(set(usable_names.values())) == len(usable_names)`
UniqueNewNames ==
    Cardinality({names.dict[k] : k \in UsableNames}) = Cardinality(UsableNames)

\* The loop of Rename.__init__ over the items of names, taken in the given
\* order, from the i-th on.
RECURSIVE RenameLoop(_, _, _, _)
RenameLoop(policy, order, i, sources) ==
    IF i > Len(order)
    THEN [called |-> TRUE, outcome |-> "constructed", sources |-> sources]
    ELSE LET old == order[i]
             new == names.dict[old] IN
         IF /\ new \in RangeOf(rename_sources)
            /\ new \notin DOMAIN names.dict
            /\ old \in UsableNames
         THEN [called |-> TRUE, outcome |-> "KeyError", sources |-> <<>>]
         ELSE IF old \notin RangeOf(rename_sources)
         THEN IF policy = "raise"
              THEN [called |-> TRUE, outcome |-> "KeyError", sources |-> <<>>]
              ELSE RenameLoop(policy, order, i + 1, sources)
         ELSE RenameLoop(policy, order, i + 1,
                         [sources EXCEPT ![SourcesLookup(old)] = new])

\* Rename.__init__, the items of names being met in the given order.
Rename_init(policy, order) ==
    IF names.is_none \/ ~KnownPolicy(policy)
    THEN [called |-> TRUE, outcome |-> "ValueError", sources |-> <<>>]
    ELSE IF ~UniqueNewNames
    THEN [called |-> TRUE, outcome |-> "KeyError", sources |-> <<>>]
    ELSE RenameLoop(policy, order, 1, rename_sources)

\* The orders in which a dictionary may hand out its keys.
Orders(keys) ==
    {o \in [1..Cardinality(keys) -> keys] :
        \A i, j \in 1..Cardinality(keys) : o[i] = o[j] => i = j}

RenameConstruct ==
    /\ ~rename_out.called
    /\ rename_sources # <<>>
    /\ \E order \in Orders(DOMAIN names.dict) :
          rename_out' = Rename_init(on_non_existent, order)
    /\ UNCHANGED <<rename_sources, names, on_non_existent>>
    /\ UNCHANGED <<transformerVars, handleVars, readVars, subsetVars,
                 accessVars, padVars, mergeVars, filterVars, sourcewiseVars,
                 modeVars, predVars, cacheFileVars, unpackVars, splitVars,
                 iteratorVars>>

\* The source names of a stream: distinct names.
RenameSourcesChoices ==
    UNION {Orders(S) : S \in {T \in SUBSET SourceNames :
                                 /\ T # {}
                                 /\ Cardinality(T) <= MaxRenameSources}}

NamesChoices ==
    {[is_none |-> TRUE, dict |-> <<>>]} \cup
    UNION {{[is_none |-> FALSE, dict |-> d] : d \in [K -> SourceNames]} :
              K \in {T \in SUBSET SourceNames : Cardinality(T) <= MaxRenames}}

RenameInit ==
    /\ rename_sources \in RenameSourcesChoices
    /\ names \in NamesChoices
    /\ on_non_existent \in {"raise", "ignore", "warn", "other"}
    /\ rename_out = NoRename
    /\ BatchIdle
    /\ CacheIdle
    /\ MPIdle
    /\ HandleIdle
    /\ ReadIdle
    /\ SubsetIdle
    /\ AccessIdle
    /\ PadIdle
    /\ MergeIdle
    /\ FilterIdle
    /\ SourcewiseIdle
    /\ ModeIdle
    /\ PredIdle
    /\ CacheFileIdle
    /\ UnpackIdle
    /\ SplitIdle
    /\ IteratorIdle

RenameNext ==
    \/ RenameConstruct

SpecRename == RenameInit /\ [][RenameNext]_vars

\* The sources of the wrapped stream that names renames.
Renamed == DOMAIN names.dict \cap RangeOf(rename_sources)

\* C26: the construction of a Rename fails when two sources of the stream
\* are given the same new name, and when a source is given the name of a
\* source of the stream that is not renamed itself; a Rename that was built
\* has as many sources as the stream, every renamed source under its new
\* name at its old position, the others as they were, and no name twice.
RenameKeepsUnique ==
    rename_out.called =>
        /\ (\E k1, k2 \in Renamed :
               k1 # k2 /\ names.dict[k1] = names.dict[k2])
              => rename_out.outcome \in {"KeyError", "ValueError"}
        /\ (\E k \in Renamed :
               /\ names.dict[k] \in RangeOf(rename_sources)
               /\ names.dict[k] \notin DOMAIN names.dict)
              => rename_out.outcome \in {"KeyError", "ValueError"}
        /\ rename_out.outcome = "constructed" =>
              /\ Len(rename_out.sources) = Len(rename_sources)
              /\ \A i \in 1..Len(rename_sources) :
                    rename_out.sources[i] =
                        IF rename_sources[i] \in Renamed
                        THEN names.dict[rename_sources[i]]
                        ELSE rename_sources[i]
              /\ \A i, j \in 1..Len(rename_out.sources) :
                    rename_out.sources[i] = rename_out.sources[j] => i = j

\* Two sources swapped their names.
RenameKeepsUniqueWitness ==
    /\ rename_out.outcome = "constructed"
    /\ Len(rename_sources) = 2
    /\ Renamed = RangeOf(rename_sources)
    /\ rename_out.sources[1] = rename_sources[2]
    /\ rename_out.sources[2] = rename_sources[1]

\* C27: a key of names that is no source of the stream makes the
\* construction fail under 'raise'; under 'ignore' and under 'warn' the entry
\* is passed over, the construction ending alike under both, with the other
\* entries applied; a policy other than these three makes it fail.
RenamePolicy ==
    rename_out.called /\ ~names.is_none =>
        LET missing == DOMAIN names.dict \ RangeOf(rename_sources) IN
        /\ ~(on_non_existent \in {"raise", "ignore", "warn"})
              => rename_out.outcome = "ValueError"
        /\ (on_non_existent = "raise" /\ missing # {})
              => rename_out.outcome = "KeyError"
        /\ on_non_existent \in {"ignore", "warn"} =>
              /\ \A order \in Orders(DOMAIN names.dict) :
                    /\ rename_out = Rename_init("ignore", order)
                    /\ rename_out = Rename_init("warn", order)
              /\ UsableNames = {} =>
                    /\ rename_out.outcome = "constructed"
                    /\ rename_out.sources = rename_sources
              /\ rename_out.outcome = "constructed" =>
                    \A i \in 1..Len(rename_sources) :
                        rename_sources[i] \in DOMAIN names.dict =>
                            rename_out.sources[i] = names.dict[rename_sources[i]]

\* Under 'warn' one entry names no source of the stream and another renames
\* a source: the stream was built with that one renamed.
RenamePolicyWitness ==
    /\ rename_out.outcome = "constructed"
    /\ on_non_existent = "warn"
    /\ DOMAIN names.dict \ RangeOf(rename_sources) # {}
    /\ Renamed # {}
    /\ rename_out.sources # rename_sources

\* ------------------------------------------------- FilterSources
\* `self.sources = tuple(sources)`: the names in the order they were asked for.
FilteredAsAsked == filter_sources.names

\* `tuple(s for s in data_stream.sources if s in sources)`
Filtered ==
    SelectSeq(filter_stream_sources,
              LAMBDA s : s \in RangeOf(filter_sources.names))

\* FilterSources.__init__
FilterSources_init ==
    IF filter_sources.is_none
    THEN [called |-> TRUE, outcome |-> "ValueError", sources |-> <<>>]
    ELSE IF \E i \in 1..Len(filter_sources.names) :
               filter_sources.names[i] \notin RangeOf(filter_stream_sources)
    THEN [called |-> TRUE, outcome |-> "ValueError", sources |-> <<>>]
    ELSE [called |-> TRUE, outcome |-> "constructed", sources |-> Filtered]

FilterConstruct ==
    /\ ~filter_out.called
    /\ filter_stream_sources # <<>>
    /\ filter_out' = FilterSources_init
    /\ UNCHANGED <<filter_stream_sources, filter_sources, filter_data>>
    /\ UNCHANGED <<transformerVars, handleVars, readVars, subsetVars,
                 accessVars, padVars, mergeVars, renameVars, sourcewiseVars,
                 modeVars, predVars, cacheFileVars, unpackVars, splitVars,
                 iteratorVars>>

\* The k-th item of the wrapped stream: one value per source of it.
FilterItem(k) ==
    [i \in 1..Len(filter_stream_sources) |-> <<filter_stream_sources[i], k>>]

\* `izip(data, self.data_stream.sources)`, kept `if s in self.sources`
FilterSources_transform_any(data) ==
    LET kept == {i \in 1..Len(data) :
                    filter_stream_sources[i] \in RangeOf(filter_out.sources)}
        nth(n) == CHOOSE i \in kept : Cardinality({j \in kept : j < i}) = n - 1
    IN  [n \in 1..Cardinality(kept) |-> data[nth(n)]]

FilterTransform ==
    /\ filter_out.outcome = "constructed"
    /\ ~filter_data.called
    /\ \E k \in 1..MaxFilterItems :
          filter_data' = [called |-> TRUE, item |-> k,
                          data |-> FilterSources_transform_any(FilterItem(k))]
    /\ UNCHANGED <<filter_stream_sources, filter_sources, filter_out>>
    /\ UNCHANGED <<transformerVars, handleVars, readVars, subsetVars,
                 accessVars, padVars, mergeVars, renameVars, sourcewiseVars,
                 modeVars, predVars, cacheFileVars, unpackVars, splitVars,
                 iteratorVars>>

FilterStreamChoices ==
    UNION {Orders(S) : S \in {T \in SUBSET SourceNames :
                                 /\ T # {}
                                 /\ Cardinality(T) <= MaxFilterSources}}

FilterSourcesChoices ==
    {[is_none |-> TRUE, names |-> <<>>]} \cup
    UNION {{[is_none |-> FALSE, names |-> q] : q \in [1..n -> SourceNames]} :
              n \in 0..MaxFilterRequest}

FilterInit ==
    /\ filter_stream_sources \in FilterStreamChoices
    /\ filter_sources \in FilterSourcesChoices
    /\ filter_out = NoFilter
    /\ filter_data = NoFilterData
    /\ BatchIdle
    /\ CacheIdle
    /\ MPIdle
    /\ HandleIdle
    /\ ReadIdle
    /\ SubsetIdle
    /\ AccessIdle
    /\ PadIdle
    /\ MergeIdle
    /\ RenameIdle
    /\ SourcewiseIdle
    /\ ModeIdle
    /\ PredIdle
    /\ CacheFileIdle
    /\ UnpackIdle
    /\ SplitIdle
    /\ IteratorIdle

FilterNext ==
    \/ FilterConstruct
    \/ FilterTransform

SpecFilterSources == FilterInit /\ [][FilterNext]_vars

\* C28: a FilterSources stream has as sources the sources of the wrapped
\* stream that were asked for, each once and in the order of the wrapped
\* stream, however they were asked for; an item it hands on holds the data
\* of exactly these sources, the i-th value being that of the i-th source;
\* asking for a name the wrapped stream does not have fails the construction.
FilterKeepsOrder ==
    LET up == filter_stream_sources
        asked == RangeOf(filter_sources.names)
        at(name) == CHOOSE i \in 1..Len(up) : up[i] = name IN
    /\ (filter_out.called /\ ~(asked \subseteq RangeOf(up)))
          => filter_out.outcome = "ValueError"
    /\ filter_out.outcome = "constructed" =>
          /\ RangeOf(filter_out.sources) = asked
          /\ \A i, j \in 1..Len(filter_out.sources) :
                i < j => at(filter_out.sources[i]) < at(filter_out.sources[j])
    /\ filter_data.called =>
          /\ Len(filter_data.data) = Len(filter_out.sources)
          /\ \A i \in 1..Len(filter_out.sources) :
                filter_data.data[i] = <<filter_out.sources[i], filter_data.item>>

\* Two sources asked for in the other order than the stream has them, one of
\* them twice: the item handed on holds both in the order of the stream.
FilterKeepsOrderWitness ==
    /\ filter_data.called
    /\ Len(filter_stream_sources) = 2
    /\ Len(filter_sources.names) = 3
    /\ filter_sources.names[1] = filter_stream_sources[2]
    /\ filter_sources.names[2] = filter_stream_sources[1]
    /\ filter_sources.names[3] = filter_stream_sources[2]
    /\ Len(filter_data.data) = 2

\* ------------------------------------------------- SourcewiseTransformer
\* SourcewiseTransformer.__init__
SourcewiseConstruct ==
    /\ ~which_sources.built
    /\ sw_stream_sources # <<>>
    /\ which_sources' =
          [built |-> TRUE,
           names |-> IF sw_which_arg.is_none THEN RangeOf(sw_stream_sources)
                     ELSE sw_which_arg.names]
    /\ UNCHANGED <<sw_stream_sources, sw_which_arg, sw_data>>
    /\ UNCHANGED <<transformerVars, handleVars, readVars, subsetVars,
                 accessVars, padVars, mergeVars, renameVars, filterVars,
                 modeVars, predVars, cacheFileVars, unpackVars, splitVars,
                 iteratorVars>>

\* The k-th item of the wrapped stream: one value per source of it.
SourcewiseItem(k) ==
    [i \in 1..Len(sw_stream_sources) |->
        [value |-> <<sw_stream_sources[i], k>>, by |-> "none", as |-> "none"]]

\* transform_source_example / transform_source_batch of a subclass: the value
\* it returns is made by that method from the value and the name it is given.
Method(method, source_data, source_name) ==
    [value |-> source_data.value, by |-> method, as |-> source_name]

InWhichSourcesAlways(source_name) == TRUE

\* `source_name in self.which_sources`
InWhichSources(source_name) == source_name \in which_sources.names

\* SourcewiseTransformer._apply_sourcewise_transformation
ApplySourcewiseTransformation(data, method) ==
    [i \in 1..Len(data) |->
        IF i <= Len(sw_stream_sources) /\ InWhichSources(sw_stream_sources[i])
        THEN Method(method, data[i], sw_stream_sources[i])
        ELSE data[i]]

\* transform_example and transform_batch
SourcewiseTransform ==
    /\ which_sources.built
    /\ ~sw_data.called
    /\ \E k \in 1..MaxSourcewiseItems :
          \E method \in {"transform_source_example",
                         "transform_source_batch"} :
              sw_data' =
                  [called |-> TRUE, method |-> method, item |-> k,
                   data |-> ApplySourcewiseTransformation(SourcewiseItem(k),
                                                          method)]
    /\ UNCHANGED <<sw_stream_sources, sw_which_arg, which_sources>>
    /\ UNCHANGED <<transformerVars, handleVars, readVars, subsetVars,
                 accessVars, padVars, mergeVars, renameVars, filterVars,
                 modeVars, predVars, cacheFileVars, unpackVars, splitVars,
                 iteratorVars>>

SourcewiseStreamChoices ==
    UNION {Orders(S) : S \in {T \in SUBSET SourceNames :
                                 /\ T # {}
                                 /\ Cardinality(T) <= MaxSourcewiseSources}}

SourcewiseInit ==
    /\ sw_stream_sources \in SourcewiseStreamChoices
    /\ sw_which_arg \in {[is_none |-> TRUE, names |-> {}]} \cup
                        {[is_none |-> FALSE, names |-> S] :
                            S \in SUBSET SourceNames}
    /\ which_sources = NotBuilt
    /\ sw_data = NoSourcewiseData
    /\ BatchIdle
    /\ CacheIdle
    /\ MPIdle
    /\ HandleIdle
    /\ ReadIdle
    /\ SubsetIdle
    /\ AccessIdle
    /\ PadIdle
    /\ MergeIdle
    /\ RenameIdle
    /\ FilterIdle
    /\ ModeIdle
    /\ PredIdle
    /\ CacheFileIdle
    /\ UnpackIdle
    /\ SplitIdle
    /\ IteratorIdle

SourcewiseNext ==
    \/ SourcewiseConstruct
    \/ SourcewiseTransform

SpecSourcewise == SourcewiseInit /\ [][SourcewiseNext]_vars

\* C29: a sourcewise transformer hands on an item of the same length and
\* order as the one it got; the value of a source named in which_sources, of
\* every source when which_sources was not given, is the one its method made
\* of the value and the name of that source, and every other value is the
\* one that came in.
SourcewiseFrame ==
    sw_data.called =>
        LET chosen == IF sw_which_arg.is_none THEN RangeOf(sw_stream_sources)
                      ELSE sw_which_arg.names IN
        /\ Len(sw_data.data) = Len(sw_stream_sources)
        /\ \A i \in 1..Len(sw_stream_sources) :
              /\ sw_data.data[i].value = <<sw_stream_sources[i], sw_data.item>>
              /\ IF sw_stream_sources[i] \in chosen
                 THEN /\ sw_data.data[i].by = sw_data.method
                      /\ sw_data.data[i].as = sw_stream_sources[i]
                 ELSE sw_data.data[i] = SourcewiseItem(sw_data.item)[i]

\* Of two sources the second alone was named: the first value came through
\* as it was and the second was transformed.
SourcewiseFrameWitness ==
    /\ sw_data.called
    /\ Len(sw_stream_sources) = 2
    /\ ~sw_which_arg.is_none
    /\ sw_which_arg.names = {sw_stream_sources[2]}
    /\ sw_data.data[1].by = "none"
    /\ sw_data.data[2].by = "transform_source_batch"

\* ------------------------------------------------- modes of the stages
\* The iteration schemes a stage may be given: none, a scheme of batch sizes,
\* a scheme of batches of indices, a scheme of single indices.
SchemeKinds == {"None", "BatchSizeScheme", "BatchScheme", "IndexScheme"}

\* `iteration_scheme.requests_examples`
RequestsExamples(scheme) == scheme = "IndexScheme"

\* `isinstance(iteration_scheme, BatchSizeScheme)`
IsBatchSizeScheme(scheme) == scheme = "BatchSizeScheme"

\* The mode of a stream that was given a scheme and no produces_examples.
InferredFromScheme(scheme) == RequestsExamples(scheme)

Raised(error) == [outcome |-> error, produces_examples |-> FALSE]

Constructed(mode) == [outcome |-> "constructed", produces_examples |-> mode]

\* Batch.__init__
Batch_init(wrapped, scheme) ==
    IF scheme = "None" THEN Raised("ValueError")
    ELSE IF ~wrapped.produces_examples THEN Raised("ValueError")
    ELSE IF RequestsExamples(scheme) THEN Raised("ValueError")
    ELSE Constructed(InferredFromScheme(scheme))

Unpack_initUnchecked(wrapped) == Constructed(TRUE)

\* Unpack.__init__
Unpack_init(wrapped) ==
    IF wrapped.produces_examples THEN Raised("ValueError")
    ELSE Constructed(TRUE)

\* Padding.__init__
Padding_init(wrapped) ==
    IF wrapped.produces_examples THEN Raised("ValueError")
    ELSE Constructed(FALSE)

\* Cache.__init__
Cache_init(wrapped, scheme) ==
    IF ~IsBatchSizeScheme(scheme) THEN Raised("ValueError")
    ELSE Constructed(InferredFromScheme(scheme))

Top == pipeline[Len(pipeline)]

\* One __init__ with the last stage as the wrapped stream: the stage built
\* is the last stage from then on, a failed construction leaves the pipeline
\* as it was.
Build(class, scheme, result) ==
    /\ pipeline # <<>>
    /\ Len(pipeline) <= MaxStages
    /\ construction' = [class |-> class, scheme |-> scheme,
                        wrapped |-> Top.produces_examples,
                        outcome |-> result.outcome,
                        produces_examples |-> result.produces_examples]
    /\ pipeline' = IF result.outcome = "constructed"
                   THEN Append(pipeline,
                               [class |-> class,
                                produces_examples |-> result.produces_examples])
                   ELSE pipeline
    /\ UNCHANGED <<transformerVars, handleVars, readVars, subsetVars,
                 accessVars, padVars, mergeVars, renameVars, filterVars,
                 sourcewiseVars, predVars, cacheFileVars, unpackVars,
                 splitVars, iteratorVars>>

BuildBatch ==
    \E scheme \in SchemeKinds : Build("Batch", scheme, Batch_init(Top, scheme))

BuildUnpack == Build("Unpack", "None", Unpack_init(Top))

BuildPadding == Build("Padding", "None", Padding_init(Top))

BuildCache ==
    \E scheme \in SchemeKinds : Build("Cache", scheme, Cache_init(Top, scheme))

ModeInit ==
    /\ \E mode \in BOOLEAN :
          pipeline = <<[class |-> "DataStream", produces_examples |-> mode]>>
    /\ construction = NoConstruction
    /\ BatchIdle
    /\ CacheIdle
    /\ MPIdle
    /\ HandleIdle
    /\ ReadIdle
    /\ SubsetIdle
    /\ AccessIdle
    /\ PadIdle
    /\ MergeIdle
    /\ RenameIdle
    /\ FilterIdle
    /\ SourcewiseIdle
    /\ PredIdle
    /\ CacheFileIdle
    /\ UnpackIdle
    /\ SplitIdle
    /\ IteratorIdle

ModeNext ==
    \/ BuildBatch
    \/ BuildUnpack
    \/ BuildPadding
    \/ BuildCache

SpecModes == ModeInit /\ [][ModeNext]_vars

\* C30: the construction of a Batch fails over a stream of batches, with a
\* scheme that asks for single examples and without a scheme; that of an
\* Unpack and of a Padding fails over a stream of examples; that of a Cache
\* fails with anything but a scheme of batch sizes; a Batch, a Padding and a
\* Cache that were built are streams of batches, an Unpack that was built is
\* a stream of examples.
ModeMismatchRejected ==
    LET c == construction
        failed == c.outcome = "ValueError"
        built == c.outcome = "constructed" IN
    /\ c.class = "Batch" =>
          /\ (~c.wrapped \/ c.scheme \in {"IndexScheme", "None"}) => failed
          /\ built => ~c.produces_examples
    /\ c.class = "Unpack" =>
          /\ c.wrapped => failed
          /\ built => c.produces_examples
    /\ c.class = "Padding" =>
          /\ c.wrapped => failed
          /\ built => ~c.produces_examples
    /\ c.class = "Cache" =>
          /\ c.scheme # "BatchSizeScheme" => failed
          /\ built => ~c.produces_examples
    /\ c.class # "none" =>
          /\ failed \/ built
          /\ built => Top = [class |-> c.class,
                             produces_examples |-> c.produces_examples]

\* An Unpack over a Batch was refused a second Unpack upon it.
ModeMismatchRejectedWitness ==
    /\ Len(pipeline) = 3
    /\ pipeline[2].class = "Batch"
    /\ pipeline[3].class = "Unpack"
    /\ construction.class = "Unpack"
    /\ construction.outcome = "ValueError"

\* ------------------------------------------------- Filter
PassesAlways(item) == TRUE

\* `self.predicate(item)`
Passes(item) == item \in predicate

\* ifilter: the place in the wrapped epoch of the first item after `pos` that
\* the predicate is true of, and one past the end when there is none.
RECURSIVE Ifilter(_)
Ifilter(pos) ==
    IF pos >= Len(pred_upstream) THEN Len(pred_upstream) + 1
    ELSE IF Passes(pred_upstream[pos + 1]) THEN pos + 1
    ELSE Ifilter(pos + 1)

\* Filter.get_epoch_iterator: a new epoch iterator of the wrapped stream,
\* behind ifilter.
PredGetEpochIterator ==
    /\ pred_epochs < MaxEpochs
    /\ pred_epochs' = pred_epochs + 1
    /\ pred_child' = 0
    /\ pred_out' = <<>>
    /\ pred_done' = FALSE
    /\ UNCHANGED <<pred_upstream, predicate>>
    /\ UNCHANGED <<transformerVars, handleVars, readVars, subsetVars,
                 accessVars, padVars, mergeVars, renameVars, filterVars,
                 sourcewiseVars, modeVars, cacheFileVars, unpackVars,
                 splitVars, iteratorVars>>

\* next() of the iterator get_epoch_iterator returned.
PredStep ==
    /\ pred_epochs > 0
    /\ LET found == Ifilter(pred_child) IN
       IF found <= Len(pred_upstream)
       THEN /\ pred_child' = found
            /\ pred_out' = Append(pred_out, pred_upstream[found])
            /\ UNCHANGED pred_done
       ELSE /\ pred_child' = Len(pred_upstream)
            /\ pred_done' = TRUE
            /\ UNCHANGED pred_out
    /\ UNCHANGED <<pred_upstream, predicate, pred_epochs>>
    /\ UNCHANGED <<transformerVars, handleVars, readVars, subsetVars,
                 accessVars, padVars, mergeVars, renameVars, filterVars,
                 sourcewiseVars, modeVars, cacheFileVars, unpackVars,
                 splitVars, iteratorVars>>

PredValues == 1..NumPredValues

PredInit ==
    /\ pred_upstream \in UNION {[1..n -> PredValues] : n \in 0..MaxPredLen}
    /\ predicate \in SUBSET PredValues
    /\ pred_child = 0
    /\ pred_epochs = 0
    /\ pred_out = <<>>
    /\ pred_done = FALSE
    /\ BatchIdle
    /\ CacheIdle
    /\ MPIdle
    /\ HandleIdle
    /\ ReadIdle
    /\ SubsetIdle
    /\ AccessIdle
    /\ PadIdle
    /\ MergeIdle
    /\ RenameIdle
    /\ FilterIdle
    /\ SourcewiseIdle
    /\ ModeIdle
    /\ CacheFileIdle
    /\ UnpackIdle
    /\ SplitIdle
    /\ IteratorIdle

PredNext ==
    \/ PredGetEpochIterator
    \/ PredStep

SpecFilter == PredInit /\ [][PredNext]_vars

\* C31: what an epoch of a Filter has returned is the items of the wrapped
\* epoch taken so far that the predicate is true of, in their order and each
\* once; an item the predicate is false of is never returned; the epoch ends
\* when the wrapped epoch has ended, and only then.
FilterYieldsPassing ==
    /\ pred_out = SelectSeq(SubSeq(pred_upstream, 1, pred_child),
                            LAMBDA item : item \in predicate)
    /\ \A i \in 1..Len(pred_out) : pred_out[i] \in predicate
    /\ pred_done => pred_child = Len(pred_upstream)
    /\ (pred_out # <<>> /\ ~pred_done) =>
          pred_upstream[pred_child] = pred_out[Len(pred_out)]

\* An epoch that passed over an item between two it returned has ended.
FilterYieldsPassingWitness ==
    /\ pred_done
    /\ Len(pred_upstream) = 3
    /\ Len(pred_out) = 2
    /\ pred_upstream[2] \notin predicate

\* ------------------------------------------------- LocalDatasetCache.cache_file
\* Where the file lies: under a directory of the data path, in a directory
\* whose name begins like one of the data path (/data2 for /data), or
\* elsewhere; all names are absolute.
Locations == {"under", "beside", "elsewhere"}

\* `any([remote_name.startswith(directory) for directory in
\* self.dataset_remote_dir])`: dataset_remote_dir is a string (it is joined
\* with a file name in toronto_face_database.py), so the prefixes tried are
\* its characters, the first of which begins every absolute name; the empty
\* string has none.
StartsWithAny == cf_config.remote_dir_set

Ended(result) ==
    [pc |-> "done", result |-> result, copied |-> cf_call.copied,
     handed |-> cf_call.handed]

At(pc) == [cf_call EXCEPT !.pc = pc]

\* cache_file up to get_writelock.
CacheFileEnter ==
    /\ cf_call.pc = "called"
    /\ IF \/ ~cf_config.local_dir_set
          \/ ~cf_files.remote_exists
          \/ ~cf_files.remote_isfile
          \/ ~StartsWithAny
       THEN cf_call' = Ended("filename") /\ UNCHANGED lock_calls
       ELSE IF ~cf_files.mkdir_ok \/ ~cf_files.folder_writable
       THEN cf_call' = Ended("filename") /\ UNCHANGED lock_calls
       ELSE /\ cf_call' = At("locked")
            /\ lock_calls' = Append(lock_calls, "get_writelock")
    /\ UNCHANGED <<cf_config, cf_files>>
    /\ UNCHANGED <<transformerVars, handleVars, readVars, subsetVars,
                 accessVars, padVars, mergeVars, renameVars, filterVars,
                 sourcewiseVars, modeVars, predVars, unpackVars, splitVars,
                 iteratorVars>>

\* The tests under the write lock.
CacheFileExamine ==
    /\ cf_call.pc = "locked"
    /\ IF ~cf_files.local_exists
       THEN IF ~cf_files.enough_space
            THEN /\ lock_calls' = Append(lock_calls, "release_writelock")
                 /\ cf_call' = Ended("filename")
            ELSE /\ cf_call' = At("copying")
                 /\ UNCHANGED lock_calls
       ELSE IF \/ cf_files.local_older
               \/ ~cf_files.same_size
               \/ ~cf_files.readable
       THEN /\ lock_calls' = Append(lock_calls, "release_writelock")
            /\ cf_call' = Ended("filename")
       ELSE /\ cf_call' = At("handover")
            /\ UNCHANGED lock_calls
    /\ UNCHANGED <<cf_config, cf_files>>
    /\ UNCHANGED <<transformerVars, handleVars, readVars, subsetVars,
                 accessVars, padVars, mergeVars, renameVars, filterVars,
                 sourcewiseVars, modeVars, predVars, unpackVars, splitVars,
                 iteratorVars>>

\* copy_from_server_to_local: the copy is made, or shutil.copyfile raises
\* and the error leaves cache_file.
CacheFileCopy ==
    /\ cf_call.pc = "copying"
    /\ IF cf_files.copy_ok
       THEN /\ cf_files' = [cf_files EXCEPT !.local_exists = TRUE,
                                            !.local_older = FALSE,
                                            !.same_size = TRUE,
                                            !.readable = TRUE]
            /\ cf_call' = [cf_call EXCEPT !.pc = "handover", !.copied = TRUE]
       ELSE /\ cf_call' = Ended("IOError")
            /\ UNCHANGED cf_files
    /\ UNCHANGED <<cf_config, lock_calls>>
    /\ UNCHANGED <<transformerVars, handleVars, readVars, subsetVars,
                 accessVars, padVars, mergeVars, renameVars, filterVars,
                 sourcewiseVars, modeVars, predVars, unpackVars, splitVars,
                 iteratorVars>>

HandOverReleasedFirst == <<"release_writelock", "get_readlock">>

\* The two calls before `return local_name`.
HandOver == <<"get_readlock", "release_writelock">>

\* One of the two calls; after the second, `return local_name`.
CacheFileHandOver ==
    /\ cf_call.pc = "handover"
    /\ lock_calls' = Append(lock_calls, HandOver[cf_call.handed + 1])
    /\ cf_call' = IF cf_call.handed + 1 = Len(HandOver)
                  THEN [Ended("local_name") EXCEPT !.handed = Len(HandOver)]
                  ELSE [cf_call EXCEPT !.handed = cf_call.handed + 1]
    /\ UNCHANGED <<cf_config, cf_files>>
    /\ UNCHANGED <<transformerVars, handleVars, readVars, subsetVars,
                 accessVars, padVars, mergeVars, renameVars, filterVars,
                 sourcewiseVars, modeVars, predVars, unpackVars, splitVars,
                 iteratorVars>>

CacheFileInit ==
    /\ cf_config \in [local_dir_set : BOOLEAN, remote_dir_set : BOOLEAN]
    /\ cf_files \in {f \in [remote_exists : BOOLEAN, remote_isfile : BOOLEAN,
                           location : Locations, mkdir_ok : BOOLEAN,
                           folder_writable : BOOLEAN, local_exists : BOOLEAN,
                           local_older : BOOLEAN, same_size : BOOLEAN,
                           readable : BOOLEAN, enough_space : BOOLEAN,
                           copy_ok : BOOLEAN] :
                        /\ f.remote_isfile => f.remote_exists
                        /\ f.folder_writable => f.mkdir_ok
                        /\ ~f.local_exists =>
                              ~f.local_older /\ ~f.same_size /\ ~f.readable}
    /\ cf_call = [NoCacheFileCall EXCEPT !.pc = "called"]
    /\ lock_calls = <<>>
    /\ BatchIdle
    /\ CacheIdle
    /\ MPIdle
    /\ HandleIdle
    /\ ReadIdle
    /\ SubsetIdle
    /\ AccessIdle
    /\ PadIdle
    /\ MergeIdle
    /\ RenameIdle
    /\ FilterIdle
    /\ SourcewiseIdle
    /\ ModeIdle
    /\ PredIdle
    /\ UnpackIdle
    /\ SplitIdle
    /\ IteratorIdle

CacheFileNext ==
    \/ CacheFileEnter
    \/ CacheFileExamine
    \/ CacheFileCopy
    \/ CacheFileHandOver

SpecCacheFile == CacheFileInit /\ [][CacheFileNext]_vars

Calls(name) == {i \in 1..Len(lock_calls) : lock_calls[i] = name}

\* C32: a call of cache_file that has ended returned the file name it was
\* given or the local name; the local name only with a local copy that was
\* just made or is not older than the remote file, of its size and readable;
\* and the file name it was given when no local directory is set, the remote
\* name is missing or no file or lies outside the data path, the local
\* folder cannot be written or there is not enough space for a copy.
CacheFileResolves ==
    cf_call.pc = "done" =>
        /\ cf_call.result \in {"filename", "local_name"}
        /\ cf_call.result = "local_name" =>
              /\ cf_files.local_exists
              /\ \/ cf_call.copied
                 \/ /\ ~cf_files.local_older
                    /\ cf_files.same_size
                    /\ cf_files.readable
        /\ (\/ ~cf_config.local_dir_set
            \/ ~cf_files.remote_exists
            \/ ~cf_files.remote_isfile
            \/ cf_files.location # "under"
            \/ ~cf_files.folder_writable
            \/ (~cf_files.local_exists /\ ~cf_files.enough_space))
              => cf_call.result = "filename"

\* C37: from get_writelock to the return of the local name the local file is
\* under the write lock or under the read lock, and the read lock was taken
\* before the write lock was released.
CacheFileHandsOver ==
    LET held == \/ Cardinality(Calls("get_writelock")) >
                       Cardinality(Calls("release_writelock"))
                \/ Calls("get_readlock") # {} IN
    /\ cf_call.pc \in {"locked", "copying", "handover"} => held
    /\ cf_call.result = "local_name" =>
          /\ held
          /\ \A r \in Calls("release_writelock") :
                \E g \in Calls("get_readlock") : g < r

\* The local name was returned after a copy was made.
CacheFileHandsOverWitness ==
    /\ cf_call.result = "local_name"
    /\ cf_call.copied
    /\ lock_calls = <<"get_writelock", "get_readlock", "release_writelock">>

\* C38: a call of cache_file that took the write lock and has ended, by a
\* return or by an error of the copy, has called release_writelock once.
CacheFileReleases ==
    (cf_call.pc = "done" /\ Calls("get_writelock") # {}) =>
        Cardinality(Calls("release_writelock")) = 1

\* ------------------------------------------------- Unpack over a batch stream
\* The examples of the b-th batch of epoch e of the wrapped stream, as izip
\* hands them out.
UnpackRows(e, b) == [k \in 1..unp_batches[b] |-> <<e, b, k>>]

DataIsNoneAlways(data) == TRUE

\* `not self.data`: an izip object is true, None is not.
DataIsNone(data) == data.is_none

\* Unpack.get_data(None) from the state (data, child), `pulls` batches having
\* been pulled by this call already, the first of them with `left` examples
\* in the queue.
RECURSIVE UnpackGetData(_, _, _, _, _)
UnpackGetData(data, child, pulled, pulls, left) ==
    IF DataIsNone(data) /\ child >= Len(unp_batches)
    THEN [outcome |-> "StopIteration", value |-> <<>>, data |-> data,
          child |-> child, pulled |-> pulled, pulls |-> pulls, left |-> left]
    ELSE LET pull == DataIsNone(data)
             d == IF pull THEN UnpackRows(unp_epochs, child + 1)
                  ELSE data.items
             c == IF pull THEN child + 1 ELSE child
             p == IF pull THEN Append(pulled, <<unp_epochs, child + 1>>)
                  ELSE pulled
             n == IF pull THEN pulls + 1 ELSE pulls
             l == IF pull /\ pulls = 0 THEN Len(data.items) ELSE left
         IN  IF d # <<>>
             THEN [outcome |-> "data", value |-> <<Head(d)>>,
                   data |-> SomeData(Tail(d)), child |-> c, pulled |-> p,
                   pulls |-> n, left |-> l]
             ELSE UnpackGetData(NoneData, c, p, n, l)

\* Unpack.get_data
UnpackCall(request) ==
    /\ unp_epochs > 0
    /\ IF request # "None"
       THEN /\ unp_last' = [outcome |-> "ValueError", pulls |-> 0, left |-> 0]
            /\ UNCHANGED <<unp_child, unp_data, unp_pulled, unp_out>>
       ELSE LET r == UnpackGetData(unp_data, unp_child, unp_pulled, 0, 0) IN
            /\ unp_last' = [outcome |-> r.outcome, pulls |-> r.pulls,
                            left |-> r.left]
            /\ unp_child' = r.child
            /\ unp_data' = r.data
            /\ unp_pulled' = r.pulled
            /\ unp_out' = unp_out \o r.value
    /\ UNCHANGED <<unp_batches, unp_epochs>>
    /\ UNCHANGED <<transformerVars, handleVars, readVars, subsetVars,
                 accessVars, padVars, mergeVars, renameVars, filterVars,
                 sourcewiseVars, modeVars, predVars, cacheFileVars, splitVars,
                 iteratorVars>>

UnpackGet == \E request \in {"None", "request"} : UnpackCall(request)

\* get_epoch_iterator of the Unpack stream: a new epoch iterator of the
\* wrapped stream; Unpack.data is not touched.
UnpackGetEpochIterator ==
    /\ unp_epochs < MaxEpochs
    /\ unp_epochs' = unp_epochs + 1
    /\ unp_child' = 0
    /\ unp_last' = NoUnpackCall
    /\ UNCHANGED <<unp_batches, unp_data, unp_pulled, unp_out>>
    /\ UNCHANGED <<transformerVars, handleVars, readVars, subsetVars,
                 accessVars, padVars, mergeVars, renameVars, filterVars,
                 sourcewiseVars, modeVars, predVars, cacheFileVars, splitVars,
                 iteratorVars>>

UnpackInit ==
    /\ unp_batches \in UNION {[1..n -> 0..MaxUnpackSize] :
                                 n \in 0..MaxUnpackBatches}
    /\ unp_child = 0
    /\ unp_epochs = 0
    /\ unp_data = NoneData
    /\ unp_pulled = <<>>
    /\ unp_out = <<>>
    /\ unp_last = NoUnpackCall
    /\ BatchIdle
    /\ CacheIdle
    /\ MPIdle
    /\ HandleIdle
    /\ ReadIdle
    /\ SubsetIdle
    /\ AccessIdle
    /\ PadIdle
    /\ MergeIdle
    /\ RenameIdle
    /\ FilterIdle
    /\ SourcewiseIdle
    /\ ModeIdle
    /\ PredIdle
    /\ CacheFileIdle
    /\ SplitIdle
    /\ IteratorIdle

UnpackStreamNext ==
    \/ UnpackGetEpochIterator
    \/ UnpackGet

SpecUnpack == UnpackInit /\ [][UnpackStreamNext]_vars

\* C33: Unpack pulls a batch of the wrapped stream only with no example left
\* in its queue; the examples it has returned, with those still in its queue,
\* are the examples of the batches it pulled, in the order of the batches and
\* within them, one to a call; empty batches are passed over within the call;
\* and a call ends in StopIteration when the queue is empty and the wrapped
\* epoch has no batch left, and in no other case.
UnpackDelivers ==
    LET rows(i) == [k \in 1..unp_batches[unp_pulled[i][2]] |->
                       <<unp_pulled[i][1], unp_pulled[i][2], k>>]
        before(i) == Cardinality({jk \in (1..Len(unp_pulled)) \X
                                            (1..MaxUnpackSize + 1) :
                                     /\ jk[1] < i
                                     /\ jk[2] <= Len(rows(jk[1]))})
        all == unp_out \o unp_data.items
    IN  /\ unp_last.pulls > 0 => unp_last.left = 0
        /\ \A i \in 1..Len(unp_pulled) :
              \A k \in 1..Len(rows(i)) :
                  /\ before(i) + k <= Len(all)
                  /\ all[before(i) + k] = rows(i)[k]
        /\ Len(all) = before(Len(unp_pulled) + 1)
        /\ unp_last.outcome = "StopIteration" =>
              /\ unp_data.items = <<>>
              /\ unp_child = Len(unp_batches)
        /\ unp_last.outcome = "data" =>
              (unp_last.pulls > 1 =>
                  \A i \in 1..Len(unp_pulled) :
                      (i > Len(unp_pulled) - unp_last.pulls
                           /\ i < Len(unp_pulled))
                          => rows(i) = <<>>)

\* An empty batch was passed over between two batches with examples.
UnpackDeliversWitness ==
    /\ unp_last.outcome = "data"
    /\ unp_last.pulls = 2
    /\ unp_out # <<>>
    /\ Len(unp_pulled) >= 3

\* ------------------------------------------------- the two modes of H5PYDataset
\* C34: for a slice with 0 <= start <= stop and for a list of indices below
\* num_examples, get_data of an H5PYDataset returns the rows it would return
\* in the other mode, in memory or out of memory, for the same subset.
ModesAgree ==
    (/\ g_last.called
     /\ dataset = "H5PYDataset"
     /\ sort_indices
     /\ g_last.request.kind \in {"slice", "list"}) =>
        \A p \in ArgsortChoices(g_last.request.items) :
            /\ g_last.data = InMemoryGetData(g_last.request).data
            /\ g_last.data = OutOfMemoryGetData(g_last.request, p).data

\* ------------------------------------------------- close without open
\* H5PYDataset.close of instance i, whether or not it has an open() of its
\* own to close: _ref_counts is a defaultdict(int), so the count of a path
\* nobody opened is 0 before the decrement.
H5CloseAny(i) ==
    /\ inst_opens' = [inst_opens EXCEPT ![i] = IF @ > 0 THEN @ - 1 ELSE 0]
    /\ IF UsesSharedHandle(i)
       THEN LET p == inst_path[i]
                count == ref_counts[p] - 1 IN
            /\ count >= 0 - MaxOpens
            /\ ref_counts' = [ref_counts EXCEPT ![p] = count]
            /\ IF LastClose(count)
               THEN /\ open_files' = [open_files EXCEPT ![p] = @ - 1]
                    /\ file_handles' = [file_handles EXCEPT ![p] = FALSE]
               ELSE UNCHANGED <<open_files, file_handles>>
       ELSE UNCHANGED <<file_handles, open_files, ref_counts>>
    /\ UNCHANGED <<inst_path, inst_external, inst_in_memory>>

HandleCloseAny ==
    /\ \E i \in Instances : H5CloseAny(i)
    /\ UNCHANGED <<transformerVars, readVars, subsetVars, accessVars,
                 padVars, mergeVars, renameVars, filterVars, sourcewiseVars,
                 modeVars, predVars, cacheFileVars, unpackVars, splitVars,
                 iteratorVars>>

HandleAnyNext ==
    \/ HandleOpen
    \/ HandleCloseAny

SpecHandlesAny == HandleInit /\ [][HandleAnyNext]_vars

\* C35: whatever open and close calls were made, a close without an open of
\* its own and a second close included, no path has a negative count, and an
\* instance with an open() not yet closed has the handle of its path in the
\* table.
RefCountRobust ==
    /\ \A p \in Paths : ref_counts[p] >= 0
    /\ \A i \in Instances :
          (UsesSharedHandle(i) /\ inst_opens[i] > 0)
              => file_handles[inst_path[i]]

\* ------------------------------------------------- length of a Merge epoch
\* C36: a Merge epoch returns no more items than the shortest epoch of the
\* merged streams has, has returned that many when it ends, ends at the call
\* that finds a merged stream with nothing left, and returns no item with
\* fewer elements than names were given.
MergeEpochLength ==
    LET shortest == CHOOSE n \in 0..MaxMergeLen + 1 :
            /\ \E s \in MergeStreams : data_streams[s].length = n
            /\ \A s \in MergeStreams : data_streams[s].length >= n IN
    merge_state = "constructed" =>
        /\ Len(merge_epoch) <= shortest
        /\ merge_last = "StopIteration" => Len(merge_epoch) = shortest
        /\ merge_last = "item" => merge_epoch # <<>>
        /\ \A k \in 1..Len(merge_epoch) :
              ~(Len(merge_epoch[k]) < Len(merge_sources))

\* The epoch ended after one item, the second stream having one item and the
\* first two.
MergeEpochLengthWitness ==
    /\ merge_last = "StopIteration"
    /\ Len(merge_epoch) = 1
    /\ data_streams[1].length = 2
    /\ data_streams[2].length = 1
    /\ child_epoch_iterators[1] = 2

\* ------------------------------------------------- the split array
\* Names are sequences of characters: "a" takes one byte in UTF-8, "e_acute"
\* two.
NameChars == {"a", "e_acute"}

\* `character.encode('utf8')`
Utf8(c) == IF c = "a" THEN <<"61">> ELSE <<"C3", "A9">>

\* `name.encode('utf8')`
Encode(name) == Chain([i \in 1..Len(name) |-> Utf8(name[i])])

\* Assignment to a field of `width` bytes ('a', width): the bytes that fit.
Stored(bytes, width) ==
    SubSeq(bytes, 1, IF Len(bytes) <= width THEN Len(bytes) ELSE width)

\* `bytes.decode('utf8')`
RECURSIVE Decode(_)
Decode(bytes) ==
    IF bytes = <<>> THEN [ok |-> TRUE, name |-> <<>>]
    ELSE IF Head(bytes) = "61"
    THEN LET rest == Decode(Tail(bytes)) IN
         [ok |-> rest.ok, name |-> <<"a">> \o rest.name]
    ELSE IF Head(bytes) = "C3" /\ Len(bytes) >= 2 /\ bytes[2] = "A9"
    THEN LET rest == Decode(Tail(Tail(bytes))) IN
         [ok |-> rest.ok, name |-> <<"e_acute">> \o rest.name]
    ELSE [ok |-> FALSE, name |-> <<>>]

\* `max(len(name) for name in names)`
MaxLen(strings) ==
    CHOOSE n \in 0..(MaxNameLen + 1) :
        /\ \E name \in strings : Len(name) = n
        /\ \A name \in strings : Len(name) <= n

\* `sources |= set(split.keys())` over the splits
SplitSources == UNION {DOMAIN split_dict[split] : split \in DOMAIN split_dict}

\* `sorted(list(sources))`: any order serves, the rows are looked up by name.
SortedSources == CHOOSE o \in Orders(SplitSources) : TRUE

\* The row of create_split_array for (split, source).
SplitRow(split, source) ==
    LET split_len == MaxLen(DOMAIN split_dict)
        source_len == MaxLen(SplitSources)
        there == source \in DOMAIN split_dict[split] IN
    [split |-> Stored(Encode(split), split_len),
     source |-> Stored(Encode(source), source_len),
     start |-> IF there THEN split_dict[split][source].start ELSE 0,
     stop |-> IF there THEN split_dict[split][source].stop ELSE 0,
     available |-> there]

\* H5PYDataset.create_split_array, the dictionary handing out its splits in
\* the given order: product(split_dict, sources).
CreateSplitArray(order) ==
    IF DOMAIN split_dict = {} \/ SplitSources = {}
    THEN [made |-> TRUE, outcome |-> "ValueError", rows |-> <<>>]
    ELSE LET n == Cardinality(SplitSources) IN
         [made |-> TRUE, outcome |-> "array",
          rows |-> [i \in 1..(Len(order) * n) |->
                       SplitRow(order[((i - 1) \div n) + 1],
                                SortedSources[((i - 1) % n) + 1])]]

\* H5PYDataset.parse_split_array on the first k rows: the dictionary so far,
\* as the set of (split, source, start, stop) it holds.
RECURSIVE ParseRows(_, _)
ParseRows(rows, k) ==
    IF k = 0 THEN [ok |-> TRUE, dict |-> {}]
    ELSE LET sofar == ParseRows(rows, k - 1)
             row == rows[k]
             split == Decode(row.split)
             source == Decode(row.source) IN
         IF ~sofar.ok \/ ~split.ok \/ ~source.ok
         THEN [ok |-> FALSE, dict |-> {}]
         ELSE IF ~row.available THEN sofar
         ELSE [ok |-> TRUE,
               dict |-> {e \in sofar.dict :
                            ~(e[1] = split.name /\ e[2] = source.name)}
                        \cup {<<split.name, source.name, row.start,
                                row.stop>>}]

CreateArray ==
    /\ ~split_array.made
    /\ split_dict # <<>>
    /\ \E order \in Orders(DOMAIN split_dict) :
          split_array' = CreateSplitArray(order)
    /\ UNCHANGED <<split_dict, parsed>>
    /\ UNCHANGED <<transformerVars, handleVars, readVars, subsetVars,
                 accessVars, padVars, mergeVars, renameVars, filterVars,
                 sourcewiseVars, modeVars, predVars, cacheFileVars,
                 unpackVars, iteratorVars>>

ParseArray ==
    /\ split_array.outcome = "array"
    /\ ~parsed.done
    /\ LET r == ParseRows(split_array.rows, Len(split_array.rows)) IN
       parsed' = [done |-> TRUE,
                  outcome |-> IF r.ok THEN "dict" ELSE "UnicodeDecodeError",
                  dict |-> r.dict]
    /\ UNCHANGED <<split_dict, split_array>>
    /\ UNCHANGED <<transformerVars, handleVars, readVars, subsetVars,
                 accessVars, padVars, mergeVars, renameVars, filterVars,
                 sourcewiseVars, modeVars, predVars, cacheFileVars,
                 unpackVars, iteratorVars>>

SplitNames == UNION {[1..n -> NameChars] : n \in 1..MaxNameLen}

SplitSourceNames == {<<"a">>, <<"a", "a">>}

\* What a split gives for its sources: rows 0..1 or rows 1..3.
SplitRanges == {[start |-> 0, stop |-> 1], [start |-> 1, stop |-> 3]}

SplitInit ==
    /\ \E splits \in {S \in SUBSET SplitNames :
                         S # {} /\ Cardinality(S) <= MaxSplits} :
          split_dict \in [splits -> UNION {[srcs -> SplitRanges] :
                                 srcs \in SUBSET SplitSourceNames \ {{}}}]
    /\ split_array = NoSplitArray
    /\ parsed = NotParsed
    /\ BatchIdle
    /\ CacheIdle
    /\ MPIdle
    /\ HandleIdle
    /\ ReadIdle
    /\ SubsetIdle
    /\ AccessIdle
    /\ PadIdle
    /\ MergeIdle
    /\ RenameIdle
    /\ FilterIdle
    /\ SourcewiseIdle
    /\ ModeIdle
    /\ PredIdle
    /\ CacheFileIdle
    /\ UnpackIdle
    /\ IteratorIdle

SplitNext ==
    \/ CreateArray
    \/ ParseArray

SpecSplit == SplitInit /\ [][SplitNext]_vars

\* The (split, source, start, stop) a dictionary gives.
Given ==
    UNION {{<<split, source, split_dict[split][source].start,
              split_dict[split][source].stop>> :
               source \in DOMAIN split_dict[split]} :
              split \in DOMAIN split_dict}

\* C39: create_split_array makes one row for every split of the dictionary
\* and every source some split has, a row being available exactly when the
\* split has the source; and parsing the array gives every split the
\* sources, starts and stops the dictionary gives it, and nothing else.
SplitRoundTrip ==
    /\ split_array.made =>
          /\ split_array.outcome = "array"
          /\ Len(split_array.rows) =
                Cardinality(DOMAIN split_dict) * Cardinality(SplitSources)
          /\ Cardinality({i \in 1..Len(split_array.rows) :
                             split_array.rows[i].available})
                = Cardinality(Given)
    /\ parsed.done =>
          /\ parsed.outcome = "dict"
          /\ parsed.dict = Given

\* ------------------------------------------------- DataIterator
\* `dict(zip(sources, data))` with every source mapped to the first element.
DictZipFirst(sources, data) == [name \in RangeOf(sources) |-> data[1]]

\* `dict(zip(self.data_stream.sources, data))`: zip pairs the two up to the
\* shorter one, and a later pair replaces an earlier one of the same name.
DictZip(sources, data) ==
    LET n == Min(Len(sources), Len(data)) IN
    [name \in {sources[i] : i \in 1..n} |->
        data[CHOOSE i \in 1..n :
                 /\ sources[i] = name
                 /\ \A j \in 1..n : sources[j] = name => j <= i]]

\* The method DataIterator calls on its stream.
DataCall == IF data_stream.batch THEN "get_batch" ELSE "get_example"

\* What the stream returns for a call: one element per source, each telling
\* the call it answers.
StreamData(call) ==
    [i \in 1..Len(data_stream.sources) |->
        [method |-> call.method, request |-> call.request, element |-> i]]

StopIteration == [kind |-> "StopIteration", value |-> <<>>]

\* The end of DataIterator.__next__ (35-38).
Returned(data) ==
    IF as_dict
    THEN [kind |-> "dict", value |-> DictZip(data_stream.sources, data)]
    ELSE [kind |-> "data", value |-> data]

\* DataIterator.__next__
DataIterator_next ==
    /\ data_stream # <<>>
    /\ Len(di_returned) <= MaxRequests
    /\ IF ~request_iterator.is_none
       THEN IF request_iterator.pos < Len(request_iterator.items)
            THEN LET request ==
                         request_iterator.items[request_iterator.pos + 1]
                     call == [method |-> DataCall, request |-> Some(request)]
                 IN
                 /\ request_iterator' =
                       [request_iterator EXCEPT !.pos = @ + 1]
                 /\ di_calls' = Append(di_calls, call)
                 /\ di_returned' =
                       Append(di_returned, Returned(StreamData(call)))
                 /\ UNCHANGED data_stream
            ELSE \* next(self.request_iterator) raises StopIteration
                 /\ di_returned' = Append(di_returned, StopIteration)
                 /\ UNCHANGED <<data_stream, request_iterator, di_calls>>
       ELSE LET call == [method |-> DataCall, request |-> None] IN
            /\ di_calls' = Append(di_calls, call)
            /\ IF data_stream.left > 0
               THEN /\ data_stream' = [data_stream EXCEPT !.left = @ - 1]
                    /\ di_returned' =
                          Append(di_returned, Returned(StreamData(call)))
               ELSE \* the stream raises StopIteration
                    /\ di_returned' = Append(di_returned, StopIteration)
                    /\ UNCHANGED data_stream
            /\ UNCHANGED request_iterator
    /\ UNCHANGED as_dict
    /\ UNCHANGED <<transformerVars, handleVars, readVars, subsetVars,
                   accessVars, padVars, mergeVars, renameVars, filterVars,
                   sourcewiseVars, modeVars, predVars, cacheFileVars,
                   unpackVars, splitVars>>

RequestValues == {"r1", "r2"}

IteratorSources == {<<"a">>, <<"a", "b">>, <<"b", "a">>}

\* DataIterator.__init__
IteratorInit ==
    /\ \E batch \in BOOLEAN, sources \in IteratorSources,
          left \in 0..MaxRequests :
          data_stream = [batch |-> batch, sources |-> sources, left |-> left]
    /\ \/ request_iterator = [is_none |-> TRUE, items |-> <<>>, pos |-> 0]
       \/ \E n \in 0..MaxRequests : \E items \in [1..n -> RequestValues] :
             request_iterator = [is_none |-> FALSE, items |-> items, pos |-> 0]
    /\ as_dict \in BOOLEAN
    /\ di_calls = <<>>
    /\ di_returned = <<>>
    /\ BatchIdle
    /\ CacheIdle
    /\ MPIdle
    /\ HandleIdle
    /\ ReadIdle
    /\ SubsetIdle
    /\ AccessIdle
    /\ PadIdle
    /\ MergeIdle
    /\ RenameIdle
    /\ FilterIdle
    /\ SourcewiseIdle
    /\ ModeIdle
    /\ PredIdle
    /\ CacheFileIdle
    /\ UnpackIdle
    /\ SplitIdle

IteratorNext == DataIterator_next

SpecIterator == IteratorInit /\ [][IteratorNext]_vars

\* C40: with a request iterator, step k of the iterator takes request k and
\* makes the k-th data call on the stream with it; once the requests are
\* used up a step ends with StopIteration and calls nothing.  What a step
\* returns is the data of its call, or with as_dict the dictionary that
\* gives sources[i] the i-th element of that data.
IteratorStep ==
    LET requests == request_iterator.items
        steps == Len(di_returned) IN
    /\ ~request_iterator.is_none =>
          /\ Len(di_calls) = Min(steps, Len(requests))
          /\ request_iterator.pos = Len(di_calls)
          /\ \A k \in 1..Len(di_calls) :
                /\ di_calls[k].request = Some(requests[k])
                /\ di_calls[k].method \in {"get_batch", "get_example"}
          /\ \A k \in 1..steps :
                k > Len(requests) => di_returned[k] = StopIteration
    /\ \A k \in 1..steps :
          di_returned[k] # StopIteration =>
             LET data == StreamData(di_calls[k]) IN
             IF as_dict
             THEN /\ di_returned[k].kind = "dict"
                  /\ DOMAIN di_returned[k].value = RangeOf(data_stream.sources)
                  /\ \A i \in 1..Len(data_stream.sources) :
                        di_returned[k].value[data_stream.sources[i]] = data[i]
             ELSE di_returned[k] = [kind |-> "data", value |-> data]

\* Two requests were served as dictionaries of two sources and the step
\* after them ended with StopIteration.
IteratorStepWitness ==
    /\ data_stream # <<>>
    /\ ~request_iterator.is_none
    /\ as_dict
    /\ Len(data_stream.sources) = 2
    /\ Len(request_iterator.items) = 2
    /\ request_iterator.items[1] # request_iterator.items[2]
    /\ Len(di_returned) = 3
    /\ di_returned[3] = StopIteration
    /\ Len(di_calls) = 2

====
